---- MODULE Spec2Model ----
(***************************************************************************)
(* Model of the Brahma HQ datasheet extractor                              *)
(* (src/brahma_hq_extractor/extractor/pdf_parser.py).                      *)
(*                                                                         *)
(* A Python str is a sequence of one-character strings; a dict is a        *)
(* function whose domain is its key set; None is the value None below,     *)
(* which is not a str.                                                     *)
(***************************************************************************)
EXTENDS Integers, Sequences, FiniteSets, TLC

VARIABLES
    pc,        \* which call is in progress and where it stands
    label,     \* argument of _norm_key
    key,       \* value returned by _norm_key
    tables,    \* argument of _extract_kv_from_tables
    text,      \* argument of _extract_kv_from_lines and of the variant parsers
    todo,      \* rows (lines) the extractor's loop has still to visit
    out_kv,    \* the local dict "out" of the generic extractor in progress
    pdf,       \* argument of extract_parameters, as pdfplumber decodes it
    all_text,  \* locals of extract_parameters, as they stand at its return
    all_tables,
    kv,
    canonical,
    out,       \* the dict extract_parameters returns
    variants,  \* the list a variant parser returns
    events,    \* the storage events eventarc_receiver has still to handle
    meta,      \* the metadata object the bucket holds for a PDF
    reads,     \* the object names read_bytes was called with, in order
    written,   \* the objects write_json has written, by name
    responses  \* what eventarc_receiver answered, in order

vars == <<pc, label, key, tables, text, todo, out_kv,
          pdf, all_text, all_tables, kv, canonical, out, variants,
          events, meta, reads, written, responses>>

\* len(l) < 6 discards a line (line 67)
MinLineLen == 6

\* len(left) < 3 rejects a label (lines 84, 107)
MinLabelLen == 3

(***************************************************************************)
(* Characters and strings                                                  *)
(***************************************************************************)
None == <<"None">>

EmptyStr == <<>>

UpperCase == <<"A","B","C","D","E","F","G","H","I","J","K","L","M","N","O","P","Q","R","S","T","U","V","W","X","Y","Z">>

LowerCase == <<"a","b","c","d","e","f","g","h","i","j","k","l","m","n","o","p","q","r","s","t","u","v","w","x","y","z">>

Digits == {"0", "1", "2", "3", "4", "5", "6", "7", "8", "9"}

Range(s) == {s[i] : i \in DOMAIN s}

\* str.isspace for the characters of the model's alphabet (regex \s)
IsSpace(c) == c \in {" ", "\n", "\t"}

IsDigit(c) == c \in Digits

\* str.lower on one character
LowerChar(c) ==
    IF \E i \in DOMAIN UpperCase : UpperCase[i] = c
    THEN LowerCase[CHOOSE i \in DOMAIN UpperCase : UpperCase[i] = c]
    ELSE c

Lower(s) == [i \in DOMAIN s |-> LowerChar(s[i])]

\* str.strip(chars): drop the leading and trailing characters that satisfy In
LStrip(s, cs) ==
    IF \A i \in DOMAIN s : s[i] \in cs THEN <<>>
    ELSE SubSeq(s, CHOOSE i \in DOMAIN s :
                       s[i] \notin cs /\ \A h \in 1..(i - 1) : s[h] \in cs, Len(s))

RStrip(s, cs) ==
    IF \A i \in DOMAIN s : s[i] \in cs THEN <<>>
    ELSE SubSeq(s, 1, CHOOSE i \in DOMAIN s :
                          s[i] \notin cs /\ \A h \in (i + 1)..Len(s) : s[h] \in cs)

Strip(s, cs) == RStrip(LStrip(s, cs), cs)

SpaceChars == {" ", "\n", "\t"}

\* re.sub(r"[cs]+", repl, s) for a one-character repl: the first character of
\* every maximal run of characters of cs becomes repl, the others go
SubRuns(s, cs, repl) ==
    LET marked == [i \in DOMAIN s |->
                      IF s[i] \notin cs THEN <<s[i]>>
                      ELSE IF i > 1 /\ s[i - 1] \in cs THEN <<>>
                      ELSE <<repl>>]
        kept == SelectSeq(marked, LAMBDA m : m # <<>>)
    IN  [i \in DOMAIN kept |-> kept[i][1]]

\* str.replace(old, new) for a one-character old
RECURSIVE Replace(_, _, _)
Replace(s, old, new) ==
    IF s = <<>> THEN <<>>
    ELSE (IF Head(s) = old THEN new ELSE <<Head(s)>>) \o Replace(Tail(s), old, new)

\* _norm_ws: re.sub(r"\s+", " ", (s or "")).strip()
NormWs(s) ==
    LET t == IF s = None THEN EmptyStr ELSE s
    IN  Strip(SubRuns(t, SpaceChars, " "), SpaceChars)

KeyChars == Range(LowerCase) \cup Digits

ReservedWords ==
    { <<"s","e","l","e","c","t">>, <<"f","r","o","m">>, <<"w","h","e","r","e">>, <<"t","a","b","l","e">>, <<"g","r","o","u","p">>, <<"o","r","d","e","r">> }

\* variant: the sqlite keyword prefix is forgotten
NormKeyNoPrefix(lbl) ==
    LET s0 == Lower(Strip(IF lbl = None THEN EmptyStr ELSE lbl, SpaceChars))
        s1 == Replace(Replace(s0, "%", <<" ","p","c","t"," ">>), "°", <<" ","d","e","g"," ">>)
        s2 == SubRuns(s1, Range(s1) \ KeyChars, "_")
        s3 == Strip(SubRuns(s2, {"_"}, "_"), {"_"})
    IN  IF s3 = EmptyStr THEN <<"u","n","n","a","m","e","d">> ELSE s3

\* _norm_key
NormKey(lbl) ==
    LET s0 == Lower(Strip(IF lbl = None THEN EmptyStr ELSE lbl, SpaceChars))
        s1 == Replace(Replace(s0, "%", <<" ","p","c","t"," ">>), "°", <<" ","d","e","g"," ">>)
        s2 == SubRuns(s1, Range(s1) \ KeyChars, "_")
        s3 == Strip(SubRuns(s2, {"_"}, "_"), {"_"})
    IN  IF s3 = EmptyStr THEN <<"u","n","n","a","m","e","d">>
        ELSE IF s3 \in ReservedWords THEN <<"f","_">> \o s3
        ELSE s3

(***************************************************************************)
(* Dicts                                                                   *)
(***************************************************************************)
EmptyDict == [k \in {} |-> EmptyStr]

DictSet(d, k, v) == [x \in (DOMAIN d) \cup {k} |-> IF x = k THEN v ELSE d[x]]

\* dict.update(e)
DictUpdate(d, e) ==
    [x \in (DOMAIN d) \cup (DOMAIN e) |-> IF x \in DOMAIN e THEN e[x] ELSE d[x]]

\* dict.get(k, default)
DictGet(d, k, default) == IF k \in DOMAIN d THEN d[k] ELSE default

(***************************************************************************)
(* Generic key/value extractors                                            *)
(***************************************************************************)
\* str.splitlines() for "\n" line ends
RECURSIVE SplitLines(_)
SplitLines(s) ==
    IF s = <<>> THEN <<>>
    ELSE IF \E i \in DOMAIN s : s[i] = "\n"
         THEN LET i == CHOOSE j \in DOMAIN s :
                          s[j] = "\n" /\ \A h \in 1..(j - 1) : s[h] # "\n"
              IN  <<SubSeq(s, 1, i - 1)>> \o SplitLines(SubSeq(s, i + 1, Len(s)))
         ELSE <<s>>

\* position of the first occurrence of character c in s, 0 when there is none
Find(s, c) ==
    IF \E i \in DOMAIN s : s[i] = c
    THEN CHOOSE i \in DOMAIN s : s[i] = c /\ \A h \in 1..(i - 1) : s[h] # c
    ELSE 0

\* start of the first run of two or more whitespace characters, 0 when none
FindGap(s) ==
    IF \E i \in 1..(Len(s) - 1) : IsSpace(s[i]) /\ IsSpace(s[i + 1])
    THEN CHOOSE i \in 1..(Len(s) - 1) :
             /\ IsSpace(s[i]) /\ IsSpace(s[i + 1])
             /\ \A h \in 1..(i - 1) : ~(IsSpace(s[h]) /\ IsSpace(s[h + 1]))
    ELSE 0

\* the rule both extractors use to register a pair (lines 89-90, 110-111)
\* variant: a later value always replaces the stored one
KvPutOverwrite(acc, k, right) == DictSet(acc, k, right)

KvPut(acc, k, right) ==
    IF k \notin DOMAIN acc \/ (acc[k] = EmptyStr /\ right # EmptyStr)
    THEN DictSet(acc, k, right)
    ELSE acc

\* the pair a text line yields: <<left, right>>, or <<>> when the line is skipped
LineSplit(line) ==
    LET l == NormWs(line)
    IN  IF Len(l) < MinLineLen THEN <<>>
        ELSE IF Find(l, ":") # 0
             THEN <<SubSeq(l, 1, Find(l, ":") - 1), SubSeq(l, Find(l, ":") + 1, Len(l))>>
        ELSE IF FindGap(l) # 0
             THEN <<SubSeq(l, 1, FindGap(l) - 1),
                    LStrip(SubSeq(l, FindGap(l), Len(l)), SpaceChars)>>
        ELSE <<>>

\* variant: a pair with an empty value is registered too
LineStepKeepsEmpty(acc, line) ==
    LET p == LineSplit(line)
    IN  IF p = <<>> THEN acc
        ELSE IF Len(NormWs(p[1])) < MinLabelLen THEN acc
        ELSE KvPut(acc, NormKey(NormWs(p[1])), NormWs(p[2]))

\* one iteration of the loop of _extract_kv_from_lines
LineStep(acc, line) ==
    LET p == LineSplit(line)
    IN  IF p = <<>> THEN acc
        ELSE LET left == NormWs(p[1])
                 right == NormWs(p[2])
             IN  IF Len(left) < MinLabelLen \/ Len(right) < 1 THEN acc
                 ELSE KvPut(acc, NormKey(left), right)

\* the non-empty normalized cells of a table row
RowCells(row) ==
    SelectSeq([i \in DOMAIN row |-> IF row[i] # None THEN NormWs(row[i]) ELSE EmptyStr],
              LAMBDA c : c # EmptyStr)

\* variant: the value is the last remaining cell of the row
TableRowStepLastCell(acc, row) ==
    IF row = <<>> THEN acc
    ELSE LET cells == RowCells(row)
         IN  IF Len(cells) < 2 THEN acc
             ELSE IF Len(cells[1]) < MinLabelLen \/ Len(cells[Len(cells)]) < 1 THEN acc
             ELSE KvPut(acc, NormKey(cells[1]), cells[Len(cells)])

\* one iteration of the inner loop of _extract_kv_from_tables
TableRowStep(acc, row) ==
    IF row = <<>> THEN acc
    ELSE LET cells == RowCells(row)
         IN  IF Len(cells) < 2 THEN acc
             ELSE IF Len(cells[1]) < MinLabelLen \/ Len(cells[2]) < 1 THEN acc
             ELSE KvPut(acc, NormKey(cells[1]), cells[2])

RECURSIVE Concat(_)
Concat(ss) == IF ss = <<>> THEN <<>> ELSE Head(ss) \o Concat(Tail(ss))

\* the rows the nested loops visit, in order (an absent list of tables, or an
\* absent table, is the empty sequence: "tables or []", "table or []")
AllRows(tbls) == Concat(tbls)

RECURSIVE FoldRows(_, _)
FoldRows(acc, rows) ==
    IF rows = <<>> THEN acc ELSE FoldRows(TableRowStep(acc, Head(rows)), Tail(rows))

RECURSIVE FoldLines(_, _)
FoldLines(acc, lines) ==
    IF lines = <<>> THEN acc ELSE FoldLines(LineStep(acc, Head(lines)), Tail(lines))

\* _extract_kv_from_tables
ExtractKvFromTables(tbls) == FoldRows(EmptyDict, AllRows(tbls))

\* _extract_kv_from_lines
ExtractKvFromLines(txt) ==
    FoldLines(EmptyDict, SplitLines(IF txt = None THEN EmptyStr ELSE txt))

(***************************************************************************)
(* Regular expressions (module re), as far as pdf_parser.py uses them.     *)
(* A pattern is a sequence of items; an item matches characters of a       *)
(* class (of its complement when neg), once, optionally or repeatedly,     *)
(* greedily unless lazy.  With fold, a character is lower-cased before it  *)
(* is looked up (re.IGNORECASE; the classes are written in lower case).    *)
(***************************************************************************)
One(cs) == [cs |-> cs, neg |-> FALSE, min |-> 1, many |-> FALSE, lazy |-> FALSE]

Opt(cs) == [cs |-> cs, neg |-> FALSE, min |-> 0, many |-> FALSE, lazy |-> FALSE]

Star(cs) == [cs |-> cs, neg |-> FALSE, min |-> 0, many |-> TRUE, lazy |-> FALSE]

Plus(cs) == [cs |-> cs, neg |-> FALSE, min |-> 1, many |-> TRUE, lazy |-> FALSE]

NotPlus(cs) == [cs |-> cs, neg |-> TRUE, min |-> 1, many |-> TRUE, lazy |-> FALSE]

NotStar(cs) == [cs |-> cs, neg |-> TRUE, min |-> 0, many |-> TRUE, lazy |-> FALSE]

NotStarLazy(cs) == [cs |-> cs, neg |-> TRUE, min |-> 0, many |-> TRUE, lazy |-> TRUE]

\* a literal word, one item per character
Lit(w) == [i \in DOMAIN w |-> One({w[i]})]

ItemTakes(it, c, fold) == ((IF fold THEN LowerChar(c) ELSE c) \in it.cs) # it.neg

\* how many characters from pos on the item can take
RunLen(it, txt, pos, fold) ==
    CHOOSE n \in 0..(Len(txt) + 1 - pos) :
        /\ \A i \in pos..(pos + n - 1) : ItemTakes(it, txt[i], fold)
        /\ pos + n > Len(txt) \/ ~ItemTakes(it, txt[pos + n], fold)

Min2(a, b) == IF a < b THEN a ELSE b

\* the backtracking matcher: the positions at which items k, k+1, ... start,
\* followed by the position after the match; <<>> when there is no match
RECURSIVE MatchFrom(_, _, _, _, _)
RECURSIVE TryCounts(_, _, _, _, _, _, _, _)
MatchFrom(items, k, pos, txt, fold) ==
    IF k > Len(items) THEN <<pos>>
    ELSE LET it == items[k]
             n == RunLen(it, txt, pos, fold)
             hi == IF it.many THEN n ELSE Min2(n, 1)
         IN  IF hi < it.min THEN <<>>
             ELSE IF it.lazy
                  THEN TryCounts(items, k, pos, txt, fold, it.min, hi, 1)
                  ELSE TryCounts(items, k, pos, txt, fold, hi, it.min, -1)

TryCounts(items, k, pos, txt, fold, c, last, step) ==
    LET r == MatchFrom(items, k + 1, pos + c, txt, fold)
    IN  IF r # <<>> THEN <<pos>> \o r
        ELSE IF c = last THEN <<>>
        ELSE TryCounts(items, k, pos, txt, fold, c + step, last, step)

\* a regex: its items, its capture groups as <<first item, last item>>, and
\* the characters a negative lookbehind forbids before the match
Regex(items, groups) == [items |-> items, groups |-> groups, notafter |-> {}]

\* re.search from position from: [at, b] with b the item boundaries, or
\* [at |-> 0] when nothing matches
MatchAt(re, txt, at, fold) ==
    IF at > 1 /\ txt[at - 1] \in re.notafter THEN <<>>
    ELSE MatchFrom(re.items, 1, at, txt, fold)

\* the leftmost match of a table ms of matches by start position, as
\* [at, b] with b the item boundaries; [at |-> 0] when nothing matches
Leftmost(ms, from) ==
    IF \A i \in DOMAIN ms : i < from \/ ms[i] = <<>> THEN [at |-> 0, b |-> <<>>]
    ELSE LET at == CHOOSE i \in DOMAIN ms :
                       /\ i >= from /\ ms[i] # <<>>
                       /\ \A j \in from..(i - 1) : ms[j] = <<>>
         IN  [at |-> at, b |-> ms[at]]

\* re.search
Search(re, txt, fold) ==
    Leftmost([i \in 1..(Len(txt) + 1) |-> MatchAt(re, txt, i, fold)], 1)

\* m.group(g) (g = 0: the whole match)
Group(re, txt, m, g) ==
    IF g = 0 THEN SubSeq(txt, m.b[1], m.b[Len(m.b)] - 1)
    ELSE SubSeq(txt, m.b[re.groups[g][1]], m.b[re.groups[g][2] + 1] - 1)

\* _first_match
RECURSIVE FirstMatch(_, _)
FirstMatch(txt, patterns) ==
    IF patterns = <<>> THEN EmptyStr
    ELSE LET re == Head(patterns)
             m == Search(re, txt, TRUE)
         IN  IF m.at # 0
             THEN NormWs(Group(re, txt, m, IF Len(re.groups) >= 1 THEN 1 ELSE 0))
             ELSE FirstMatch(txt, Tail(patterns))

\* \s+ and \s*
WsPlus == <<Plus(SpaceChars)>>

WsStar == <<Star(SpaceChars)>>

\* the common tail  \s*[:\-]?\s*([^\n]+)  after a label
LabelTail == WsStar \o <<Opt({":", "-"})>> \o WsStar \o <<NotPlus({"\n"})>>

\* a label followed by the common tail; the value is the only group
Labelled(lbl) == Regex(lbl \o LabelTail, << <<Len(lbl) + 4, Len(lbl) + 4>> >>)

\* words joined by \s+ (sep = WsPlus) or \s* (sep = WsStar)
RECURSIVE Words(_, _)
Words(ws, sep) ==
    IF Len(ws) = 1 THEN Lit(ws[1])
    ELSE Lit(Head(ws)) \o sep \o Words(Tail(ws), sep)

(***************************************************************************)
(* Canonical fields (lines 284-310)                                        *)
(***************************************************************************)
DigitPlus == <<Plus(Digits)>>

\* 45\s*±\s*2\s*°C
Noct45 ==
    Regex(Lit(<<"4","5">>) \o WsStar \o Lit(<<"±">>) \o WsStar \o Lit(<<"2">>) \o WsStar
              \o Lit(<<"°","c">>), <<>>)

\* NOCT[^\n]*?([0-9]+\s*±\s*[0-9]+\s*°C)
NoctGeneric ==
    Regex(Lit(<<"n","o","c","t">>) \o <<NotStarLazy({"\n"})>> \o DigitPlus \o WsStar \o Lit(<<"±">>)
              \o WsStar \o DigitPlus \o WsStar \o Lit(<<"°","c">>), << <<6, 13>> >>)

\* Refer\.?\s*Bifacial\s*Factor
ReferBifacial ==
    Lit(<<"r","e","f","e","r">>) \o <<Opt({"."})>> \o WsStar \o Lit(<<"b","i","f","a","c","i","a","l">>) \o WsStar
        \o Lit(<<"f","a","c","t","o","r">>)

\* Pallet\s+Dimen(?:tions|sions)
PalletDimensions ==
    Lit(<<"p","a","l","l","e","t">>) \o WsPlus \o Lit(<<"d","i","m","e","n">>) \o <<One({"t", "s"})>> \o Lit(<<"i","o","n","s">>)

\* (\d+\s*pcs/pallet[^\n]*)
PackingDetails ==
    Regex(DigitPlus \o WsStar \o Lit(<<"p","c","s","/","p","a","l","l","e","t">>) \o <<NotStar({"\n"})>>, << <<1, 13>> >>)

\* the dict "canonical" in insertion order: <<field name, patterns>>
CanonicalFields == <<
    <<<<"p","o","w","e","r","_","t","o","l","e","r","a","n","c","e">>, <<Labelled(Words(<<<<"p","o","w","e","r">>, <<"t","o","l","e","r","a","n","c","e">>>>, WsPlus))>> >>,
    <<<<"t","e","m","p","e","r","a","t","u","r","e","_","n","o","c","t">>, <<Noct45, NoctGeneric>> >>,
    <<<<"m","a","x","i","m","u","m","_","s","y","s","t","e","m","_","v","o","l","t","a","g","e">>,
      <<Labelled(Words(<<<<"m","a","x","i","m","u","m">>, <<"s","y","s","t","e","m">>, <<"v","o","l","t","a","g","e">>>>, WsPlus))>> >>,
    <<<<"m","a","x","i","m","u","m","_","s","e","r","i","e","s","_","f","u","s","e","_","r","a","t","i","n","g">>,
      <<Labelled(Words(<<<<"m","a","x","i","m","u","m">>, <<"s","e","r","i","e","s">>, <<"f","u","s","e">>, <<"r","a","t","i","n","g">>>>, WsPlus))>> >>,
    <<<<"r","e","f","e","r","_","b","i","f","a","c","i","a","l","_","f","a","c","t","o","r">>, <<Labelled(ReferBifacial)>> >>,
    <<<<"t","e","m","p","e","r","a","t","u","r","e","_","c","o","e","f","f","i","c","i","e","n","t","_","p","m","a","x">>,
      <<Labelled(Words(<<<<"t","e","m","p","e","r","a","t","u","r","e">>, <<"c","o","e","f","f","i","c","i","e","n","t">>, <<"o","f">>, <<"p","m","a","x">>>>, WsPlus)),
        Labelled(Words(<<<<"t","e","m","p","e","r","a","t","u","r","e">>, <<"c","o","e","f","f","i","c","i","e","n","t">>>>, WsStar))>> >>,
    <<<<"t","e","m","p","e","r","a","t","u","r","e","_","c","o","e","f","f","i","c","i","e","n","t","_","v","o","c">>,
      <<Labelled(Words(<<<<"t","e","m","p","e","r","a","t","u","r","e">>, <<"c","o","e","f","f","i","c","i","e","n","t">>, <<"o","f">>, <<"v","o","c">>>>, WsPlus))>> >>,
    <<<<"t","e","m","p","e","r","a","t","u","r","e","_","c","o","e","f","f","i","c","i","e","n","t","_","i","s","c">>,
      <<Labelled(Words(<<<<"t","e","m","p","e","r","a","t","u","r","e">>, <<"c","o","e","f","f","i","c","i","e","n","t">>, <<"o","f">>, <<"i","s","c">>>>, WsPlus))>> >>,
    <<<<"d","i","m","e","n","s","i","o","n","s">>, <<Labelled(Lit(<<"d","i","m","e","n","s","i","o","n","s">>))>> >>,
    <<<<"w","e","i","g","h","t">>, <<Labelled(Lit(<<"w","e","i","g","h","t">>))>> >>,
    <<<<"f","r","o","n","t","_","g","l","a","s","s">>, <<Labelled(Words(<<<<"f","r","o","n","t">>, <<"g","l","a","s","s">>>>, WsPlus))>> >>,
    <<<<"b","a","c","k","_","g","l","a","s","s">>, <<Labelled(Words(<<<<"b","a","c","k">>, <<"g","l","a","s","s">>>>, WsPlus))>> >>,
    <<<<"f","r","a","m","e">>, <<Labelled(Lit(<<"f","r","a","m","e">>))>> >>,
    <<<<"j","u","n","c","t","i","o","n","_","b","o","x">>, <<Labelled(Words(<<<<"j","u","n","c","t","i","o","n">>, <<"b","o","x">>>>, WsPlus))>> >>,
    <<<<"p","r","o","t","e","c","t","i","o","n","_","c","l","a","s","s">>, <<Labelled(Words(<<<<"p","r","o","t","e","c","t","i","o","n">>, <<"c","l","a","s","s">>>>, WsPlus))>> >>,
    <<<<"i","e","c","_","f","i","r","e","_","t","y","p","e">>, <<Labelled(Words(<<<<"i","e","c">>, <<"f","i","r","e">>, <<"t","y","p","e">>>>, WsStar))>> >>,
    <<<<"o","u","t","p","u","t","_","c","a","b","l","e","s">>, <<Labelled(Words(<<<<"o","u","t","p","u","t">>, <<"c","a","b","l","e","s">>>>, WsPlus))>> >>,
    <<<<"p","a","l","l","e","t","_","d","i","m","e","n","s","i","o","n","s">>, <<Labelled(PalletDimensions)>> >>,
    <<<<"p","a","c","k","i","n","g","_","d","e","t","a","i","l","s">>, <<PackingDetails>> >> >>

CanonicalNames == {CanonicalFields[i][1] : i \in DOMAIN CanonicalFields}

CanonicalPatterns(f) ==
    CanonicalFields[CHOOSE i \in DOMAIN CanonicalFields : CanonicalFields[i][1] = f][2]

\* the dict "canonical" of extract_parameters for the text all_text
Canonical(txt) == [f \in CanonicalNames |-> FirstMatch(txt, CanonicalPatterns(f))]

\* variant: an empty canonical value is stored too, erasing the generic value
MergeCanonicalErase(acc, k, v) == DictSet(acc, NormKey(k), v)

\* variant: an empty canonical value leaves the map as it is
MergeCanonicalNoDefault(acc, k, v) ==
    IF v # EmptyStr THEN DictSet(acc, NormKey(k), v) ELSE acc

\* one iteration of the merge loop (lines 316-321)
MergeCanonical(acc, k, v) ==
    IF v # EmptyStr THEN DictSet(acc, NormKey(k), v)
    ELSE IF NormKey(k) \in DOMAIN acc THEN acc
    ELSE DictSet(acc, NormKey(k), EmptyStr)

\* the merge of lines 313-321: kv first, then the canonical fields in order
RECURSIVE MergeFrom(_, _, _)
MergeFrom(acc, canon, i) ==
    IF i > Len(CanonicalFields) THEN acc
    ELSE MergeFrom(MergeCanonical(acc, CanonicalFields[i][1], canon[CanonicalFields[i][1]]),
                   canon, i + 1)

(***************************************************************************)
(* Variant parsers                                                         *)
(***************************************************************************)
\* the match of the first alternative that matches at position at
RECURSIVE FirstAlt(_, _, _, _)
FirstAlt(alts, a, txt, at) ==
    IF a > Len(alts) THEN <<>>
    ELSE IF MatchAt(alts[a], txt, at, FALSE) # <<>> THEN MatchAt(alts[a], txt, at, FALSE)
    ELSE FirstAlt(alts, a + 1, txt, at)

\* the non-overlapping matches from left to right, out of the table ms of
\* matches by start position
RECURSIVE Walk(_, _)
Walk(ms, from) ==
    IF Leftmost(ms, from).at = 0 THEN <<>>
    ELSE <<Leftmost(ms, from).b>> \o Walk(ms, Leftmost(ms, from).b[Len(Leftmost(ms, from).b)])

\* re.findall(alts[1]|alts[2]|..., txt): the item boundaries of each match
FindAll(alts, txt) == Walk([i \in 1..Len(txt) |-> FirstAlt(alts, 1, txt, i)], 1)

\* \d+\.\d+
Decimal == Regex(DigitPlus \o Lit(<<".">>) \o DigitPlus, <<>>)

\* \d+
Integer == Regex(DigitPlus, <<>>)

MatchTexts(txt, bs) == [i \in DOMAIN bs |-> SubSeq(txt, bs[i][1], bs[i][Len(bs[i])] - 1)]

\* the texts of the matches of re.findall for ungrouped alternatives
FindAllText(alts, txt) == MatchTexts(txt, FindAll(alts, txt))

\* the default of the parameter "expected" of _parse_row_numbers
Expected == 5

\* variant: keeps whatever the line holds, up to the expected count
LastExpectedUpTo(nums) ==
    IF Len(nums) >= Expected
    THEN SubSeq(nums, Len(nums) - Expected + 1, Len(nums))
    ELSE nums

\* nums[-expected:] if len(nums) >= expected else []
LastExpected(nums) ==
    IF Len(nums) >= Expected
    THEN SubSeq(nums, Len(nums) - Expected + 1, Len(nums))
    ELSE <<>>

\* _parse_row_numbers(line, 5)
ParseRowNumbers(line) == LastExpected(FindAllText(<<Decimal, Integer>>, line))

\* sub in s
Contains(s, sub) ==
    \E i \in 1..(Len(s) - Len(sub) + 1) : SubSeq(s, i, i + Len(sub) - 1) = sub

NormEach(ls) == SelectSeq([i \in DOMAIN ls |-> NormWs(ls[i])], LAMBDA l : l # EmptyStr)

\* [_norm_ws(l) for l in text.splitlines() if _norm_ws(l)]
NormLines(txt) == NormEach(SplitLines(IF txt = None THEN EmptyStr ELSE txt))

\* the least element of a set of numbers, 0 for the empty set
First(S) == IF S = {} THEN 0 ELSE CHOOSE i \in S : \A j \in S : i <= j

\* find_line: the first line that contains prefix, case-insensitively
FindLine(lines, prefix) ==
    IF \A i \in DOMAIN lines : ~Contains(Lower(lines[i]), Lower(prefix)) THEN EmptyStr
    ELSE lines[First({i \in DOMAIN lines : Contains(Lower(lines[i]), Lower(prefix))})]

\* variant: the index is taken one too far
AtOrEmptyShifted(x, idx) == IF idx + 1 <= Len(x) THEN x[idx + 1] ELSE EmptyStr

\* x[idx] if idx < len(x) else ""  (idx counted from 1 here)
AtOrEmpty(x, idx) == IF idx <= Len(x) THEN x[idx] ELSE EmptyStr

NoctHeader == <<"S","p","e","c","i","f","i","c","a","t","i","o","n","s"," ","(","N","O","C","T",")">>

\* variant: the NOCT rows are read one line too late
NoctRowShifted(lines, i, j) ==
    IF i = 0 \/ i + j + 1 > Len(lines) THEN <<>> ELSE ParseRowNumbers(lines[i + j + 1])

\* the row of numbers noct_vals gets from the j-th line after the header at
\* index i (0: no header); a missing line raises IndexError, which leaves
\* this row and the later ones empty
NoctRow(lines, i, j) ==
    IF i = 0 \/ i + j > Len(lines) THEN <<>> ELSE ParseRowNumbers(lines[i + j])

\* the labels find_line is called with (lines 135-144)
MetricLabels == <<
    <<"M","a","x","i","m","u","m"," ","P","o","w","e","r"," ","-"," ","P","m","a","x">>,
    <<"M","a","x","i","m","u","m"," ","P","o","w","e","r"," ","V","o","l","t","a","g","e"," ","-"," ","V","m","p">>,
    <<"M","a","x","i","m","u","m"," ","P","o","w","e","r"," ","C","u","r","r","e","n","t"," ","-"," ","I","m","p">>,
    <<"O","p","e","n","-","c","i","r","c","u","i","t"," ","V","o","l","t","a","g","e"," ","-"," ","V","o","c">>,
    <<"S","h","o","r","t","-","c","i","r","c","u","i","t"," ","C","u","r","r","e","n","t"," ","-"," ","I","s","c">>,
    <<"M","o","d","u","l","e"," ","E","f","f","i","c","i","e","n","c","y"," ","S","T","C">> >>

\* pmax, vmp, imp, voc, isc, eff
StcRows(lines) == [m \in 1..6 |-> ParseRowNumbers(FindLine(lines, MetricLabels[m]))]

\* the index of the first line equal to the NOCT header, 0 when there is none
NoctIndex(lines) == First({i \in DOMAIN lines : Strip(lines[i], SpaceChars) = NoctHeader})

\* noct_vals: the rows for noct_pmax_w, noct_vmp_v, noct_imp_a, noct_voc_v, noct_isc_a
NoctRows(lines, h) == [j \in 1..5 |-> NoctRow(lines, h, j)]

\* the loop of lines 165-181
JinkoVariants(stc, noct) ==
    [idx \in DOMAIN stc[1] |->
        [pmax_w |-> stc[1][idx],
         vmp_v |-> AtOrEmpty(stc[2], idx),
         imp_a |-> AtOrEmpty(stc[3], idx),
         voc_v |-> AtOrEmpty(stc[4], idx),
         isc_a |-> AtOrEmpty(stc[5], idx),
         efficiency_pct |-> AtOrEmpty(stc[6], idx),
         noct_pmax_w |-> AtOrEmpty(noct[1], idx),
         noct_vmp_v |-> AtOrEmpty(noct[2], idx),
         noct_imp_a |-> AtOrEmpty(noct[3], idx),
         noct_voc_v |-> AtOrEmpty(noct[4], idx),
         noct_isc_a |-> AtOrEmpty(noct[5], idx)]]

JinkoFromLines(lines) == JinkoVariants(StcRows(lines), NoctRows(lines, NoctIndex(lines)))

\* _parse_jinko_like_variants
ParseJinkoLikeVariants(txt) == JinkoFromLines(NormLines(txt))

\* int(s) / the integer part of float(s) for a string of digits
RECURSIVE ToInt(_)
ToInt(ds) ==
    IF ds = <<>> THEN 0
    ELSE 10 * ToInt(SubSeq(ds, 1, Len(ds) - 1))
         + (CHOOSE d \in 0..9 : <<"0","1","2","3","4","5","6","7","8","9">>[d + 1] = ds[Len(ds)])

\* lo <= float(s) <= hi for a token s of the shape \d+\.\d+ and integers lo, hi
FloatWithin(s, lo, hi) ==
    LET dot == Find(s, ".")
        whole == ToInt(SubSeq(s, 1, dot - 1))
        frac == SubSeq(s, dot + 1, Len(s))
    IN  /\ lo <= whole
        /\ whole < hi \/ (whole = hi /\ \A i \in DOMAIN frac : frac[i] = "0")

\* the plausibility bounds of line 201
PmaxLo == 500

PmaxHi == 800

VmpLo == 20

VmpHi == 80

VocLo == 30

VocHi == 90

EffLo == 10

EffHi == 30

\* the nominal band and the number of variants kept otherwise (lines 211-212)
BandLo == 600

BandHi == 625

KeepLowest == 6

\* (?<!\d)(\d{3})\s+(\d+\.\d+)\s+(\d+\.\d+)\s+(\d+\.\d+)\s+(\d+\.\d+)\s+(\d+\.\d+)
BlockPattern ==
    LET dec == WsPlus \o Decimal.items
    IN  [items |-> <<One(Digits), One(Digits), One(Digits)>>
                       \o dec \o dec \o dec \o dec \o dec,
         groups |-> << <<1, 3>>, <<5, 7>>, <<9, 11>>, <<13, 15>>, <<17, 19>>, <<21, 23>> >>,
         notafter |-> Digits]

BlockGroups(txt, bs) ==
    [i \in DOMAIN bs |->
        [g \in 1..6 |-> SubSeq(txt, bs[i][BlockPattern.groups[g][1]],
                                bs[i][BlockPattern.groups[g][2] + 1] - 1)]]

\* pat.findall(text): one 6-tuple of group texts per match
Blocks(txt) == BlockGroups(txt, FindAll(<<BlockPattern>>, txt))

\* variant: the filter does not look at Voc
PlausibleNoVoc(blk) ==
    /\ PmaxLo <= ToInt(blk[1]) /\ ToInt(blk[1]) <= PmaxHi
    /\ FloatWithin(blk[2], VmpLo, VmpHi)
    /\ FloatWithin(blk[6], EffLo, EffHi)

\* the filter of line 201 on a matched block
Plausible(blk) ==
    /\ PmaxLo <= ToInt(blk[1]) /\ ToInt(blk[1]) <= PmaxHi
    /\ FloatWithin(blk[2], VmpLo, VmpHi)
    /\ FloatWithin(blk[4], VocLo, VocHi)
    /\ FloatWithin(blk[6], EffLo, EffHi)

\* variant: the first accepted block of a Pmax is kept, later ones are skipped
RECURSIVE RowsOfFirstWins(_, _)
RowsOfFirstWins(rows, blks) ==
    IF blks = <<>> THEN rows
    ELSE LET blk == Head(blks)
         IN  RowsOfFirstWins(IF Plausible(blk) /\ blk[1] \notin DOMAIN rows
                             THEN DictSet(rows, blk[1],
                                          <<blk[2], blk[3], blk[4], blk[5], blk[6]>>)
                             ELSE rows,
                             Tail(blks))

\* the dict "rows" after the loop of lines 192-203
RECURSIVE RowsOf(_, _)
RowsOf(rows, blks) ==
    IF blks = <<>> THEN rows
    ELSE LET blk == Head(blks)
         IN  RowsOf(IF Plausible(blk)
                    THEN DictSet(rows, blk[1], <<blk[2], blk[3], blk[4], blk[5], blk[6]>>)
                    ELSE rows,
                    Tail(blks))

\* sorted(keys, key=int)
RECURSIVE SortByInt(_)
SortByInt(ks) ==
    IF ks = {} THEN <<>>
    ELSE LET k == CHOOSE x \in ks : \A y \in ks : ToInt(x) <= ToInt(y)
         IN  <<k>> \o SortByInt(ks \ {k})

InBand(k) == BandLo <= ToInt(k) /\ ToInt(k) <= BandHi

\* variant: the lowest keys are kept whether or not the band has any
PickKeysLowest(keys) == SubSeq(keys, 1, Min2(KeepLowest, Len(keys)))

\* keys_600 if keys_600 else keys[:6]
PickKeys(keys) ==
    IF \E i \in DOMAIN keys : InBand(keys[i])
    THEN SelectSeq(keys, InBand)
    ELSE SubSeq(keys, 1, Min2(KeepLowest, Len(keys)))

\* use_keys (lines 206-212)
UseKeys(rows) == PickKeys(SortByInt(DOMAIN rows))

\* \w for the characters of the model's alphabet
IsWord(c) == c \in Range(LowerCase) \cup Range(UpperCase) \cup Digits \cup {"_"}

\* re.findall(r"\b(\d{3})\b", l)
ThreeDigitWords(l) ==
    LET at == {i \in 1..(Len(l) - 2) :
                  /\ IsDigit(l[i]) /\ IsDigit(l[i + 1]) /\ IsDigit(l[i + 2])
                  /\ i = 1 \/ ~IsWord(l[i - 1])
                  /\ i + 3 > Len(l) \/ ~IsWord(l[i + 3])}
        picked == SelectSeq([i \in DOMAIN l |-> i], LAMBDA i : i \in at)
    IN  [n \in DOMAIN picked |-> SubSeq(l, picked[n], picked[n] + 2)]

\* the index of the last occurrence of pwr among the first n powers
LastAt(powers, n, pwr) ==
    CHOOSE j \in 1..n : powers[j] = pwr /\ \A h \in (j + 1)..n : powers[h] # pwr

\* the loop of lines 225-230: a later entry for the same power replaces the
\* earlier one; decs: the decimals of the three lines after the NOCT line
NoctEntries(powers, decs) ==
    [pwr \in {powers[j] : j \in 1..Min2(Len(powers), Len(decs[1]))} |->
        [noct_pmax_w |->
             AtOrEmpty(decs[1], LastAt(powers, Min2(Len(powers), Len(decs[1])), pwr)),
         noct_vmp_v |->
             AtOrEmpty(decs[2], LastAt(powers, Min2(Len(powers), Len(decs[1])), pwr)),
         noct_imp_a |->
             AtOrEmpty(decs[3], LastAt(powers, Min2(Len(powers), Len(decs[1])), pwr))]]

\* the NOCT block read at line i (0: no line holds "noct" and "@800")
NoctAt(lines, i) ==
    IF i = 0 \/ i + 3 > Len(lines) THEN EmptyDict
    ELSE NoctEntries(ThreeDigitWords(lines[i]),
                     [j \in 1..3 |-> FindAllText(<<Decimal>>, lines[i + j])])

NoctLine(lines) ==
    First({i \in DOMAIN lines : /\ Contains(Lower(lines[i]), <<"n","o","c","t">>)
                                /\ Contains(Lower(lines[i]), <<"@","8","0","0">>)})

\* noct_map (lines 215-231)
NoctMap(txt) == NoctAt(NormLines(txt), NoctLine(NormLines(txt)))

\* noct.get(f, "") for noct = noct_map.get(p, {})
NoctGet(noct_map, p, f) == IF p \in DOMAIN noct_map THEN noct_map[p][f] ELSE EmptyStr

\* the loop of lines 233-251
RenewsysVariants(rows, use_keys, noct_map) ==
    [n \in DOMAIN use_keys |->
        [pmax_w |-> use_keys[n],
         vmp_v |-> rows[use_keys[n]][1],
         imp_a |-> rows[use_keys[n]][2],
         voc_v |-> rows[use_keys[n]][3],
         isc_a |-> rows[use_keys[n]][4],
         efficiency_pct |-> rows[use_keys[n]][5],
         noct_pmax_w |-> NoctGet(noct_map, use_keys[n], "noct_pmax_w"),
         noct_vmp_v |-> NoctGet(noct_map, use_keys[n], "noct_vmp_v"),
         noct_imp_a |-> NoctGet(noct_map, use_keys[n], "noct_imp_a"),
         noct_voc_v |-> EmptyStr,
         noct_isc_a |-> EmptyStr]]

RenewsysFromRows(rows, txt) == RenewsysVariants(rows, UseKeys(rows), NoctMap(txt))

\* _parse_renewsys_like_variants
ParseRenewsysLikeVariants(txt) ==
    RenewsysFromRows(RowsOf(EmptyDict, Blocks(IF txt = None THEN EmptyStr ELSE txt)), txt)

(***************************************************************************)
(* extract_parameters                                                      *)
(***************************************************************************)
\* sep.join(parts)
RECURSIVE Join(_, _)
Join(parts, sep) ==
    IF parts = <<>> THEN <<>>
    ELSE IF Len(parts) = 1 THEN parts[1]
    ELSE parts[1] \o sep \o Join(Tail(parts), sep)

\* json.dumps of a str, ensure_ascii=False
JsonStr(str) ==
    <<"\"">> \o Concat([i \in DOMAIN str |->
                            CASE str[i] = "\"" -> <<"\\", "\"">>
                              [] str[i] = "\\" -> <<"\\", "\\">>
                              [] str[i] = "\n" -> <<"\\", "n">>
                              [] str[i] = "\t" -> <<"\\", "t">>
                              [] OTHER -> <<str[i]>>]) \o <<"\"">>

\* variant: a null cell is written as the empty string
JsonCellNoNull(c) == JsonStr(IF c = None THEN EmptyStr ELSE c)

JsonCell(c) == IF c = None THEN <<"n","u","l","l">> ELSE JsonStr(c)

JsonList(parts) == <<"[">> \o Join(parts, <<","," ">>) \o <<"]">>

\* json.dumps(all_tables, ensure_ascii=False)
JsonDumpsTables(tbls) ==
    JsonList([t \in DOMAIN tbls |->
        JsonList([r \in DOMAIN tbls[t] |->
            JsonList([c \in DOMAIN tbls[t][r] |-> JsonCell(tbls[t][r][c])])])])

ExtractionMethod == <<"p","d","f","p","l","u","m","b","e","r","_","g","e","n","e","r","i","c","_","k","v","+","v","a","r","i","a","n","t","s","_","v","1">>

\* variant: a failing extract_tables is not caught
RECURSIVE ReadPagesTablesFatal(_, _)
ReadPagesTablesFatal(pages, n) ==
    IF n = 0 THEN [text |-> EmptyStr, tables |-> <<>>]
    ELSE IF ReadPagesTablesFatal(pages, n - 1).text = None
              \/ pages[n].text_raises \/ pages[n].tables_raise
         THEN [text |-> None, tables |-> <<>>]
         ELSE [text |-> ReadPagesTablesFatal(pages, n - 1).text
                          \o (IF pages[n].text = None THEN EmptyStr ELSE pages[n].text)
                          \o <<"\n">>,
               tables |-> ReadPagesTablesFatal(pages, n - 1).tables \o pages[n].tables]

\* the loop over pdf.pages (lines 267-273): the text and the tables read from
\* the first n pages; text is None when a page's extract_text raised.  A page's
\* tables are a sequence, empty when extract_tables returns nothing ("or []")
RECURSIVE ReadPages(_, _)
ReadPages(pages, n) ==
    IF n = 0 THEN [text |-> EmptyStr, tables |-> <<>>]
    ELSE IF ReadPages(pages, n - 1).text = None \/ pages[n].text_raises
         THEN [text |-> None, tables |-> <<>>]
         ELSE [text |-> ReadPages(pages, n - 1).text
                          \o (IF pages[n].text = None THEN EmptyStr ELSE pages[n].text)
                          \o <<"\n">>,
               tables |-> IF pages[n].tables_raise THEN ReadPages(pages, n - 1).tables
                          ELSE ReadPages(pages, n - 1).tables \o pages[n].tables]

\* the dict kv of lines 278-280
GenericKv(tbls, txt) ==
    DictUpdate(DictUpdate(EmptyDict, ExtractKvFromTables(tbls)), ExtractKvFromLines(txt))

\* variant: both parsers contribute
FirstNonEmptyBoth(a, b) == a \o b

\* variants = a; if not variants: variants = b
FirstNonEmpty(a, b) == IF a # <<>> THEN a ELSE b

\* the variant list of lines 324-326
SelectVariants(txt) ==
    FirstNonEmpty(ParseJinkoLikeVariants(txt), ParseRenewsysLikeVariants(txt))

\* variant: the coercion is inverted
NoNullInverted(v) == IF v = EmptyStr THEN None ELSE v

\* "" if v is None else v  (lines 336-337, 344)
NoNull(v) == IF v = None THEN EmptyStr ELSE v

VariantsKey == <<"v","a","r","i","a","n","t","s">>

\* the final pass of lines 335-346
NoNulls(o) ==
    [k \in DOMAIN o |->
        IF k = VariantsKey
        THEN [i \in DOMAIN o[k] |-> [f \in DOMAIN o[k][i] |-> NoNull(o[k][i][f])]]
        ELSE NoNull(o[k])]

\* variant: a raw_text key scraped from the sheet is left as it is
AssembleKeepsScraped(kvs, canon, vs, txt, tbls) ==
    NoNulls(DictSet(DictSet(DictSet(DictSet(MergeFrom(kvs, canon, 1),
                                            VariantsKey, vs),
                                    <<"r","a","w","_","t","e","x","t">>,
                                    DictGet(MergeFrom(kvs, canon, 1), <<"r","a","w","_","t","e","x","t">>, txt)),
                            <<"r","a","w","_","t","a","b","l","e","s","_","j","s","o","n">>, JsonDumpsTables(tbls)),
                    <<"e","x","t","r","a","c","t","i","o","n","_","m","e","t","h","o","d">>, ExtractionMethod))

\* variant: the tag names the parser that produced the variants
AssembleTaggedByFormat(kvs, canon, vs, txt, tbls) ==
    NoNulls(DictSet(DictSet(DictSet(DictSet(MergeFrom(kvs, canon, 1),
                                            VariantsKey, vs),
                                    <<"r","a","w","_","t","e","x","t">>, txt),
                            <<"r","a","w","_","t","a","b","l","e","s","_","j","s","o","n">>, JsonDumpsTables(tbls)),
                    <<"e","x","t","r","a","c","t","i","o","n","_","m","e","t","h","o","d">>,
                    IF vs # <<>> /\ ParseJinkoLikeVariants(txt) = <<>>
                    THEN <<"p","d","f","p","l","u","m","b","e","r","_","f","o","r","m","a","t","_","b","_","v","1">> ELSE ExtractionMethod))

\* the dict out at the return of extract_parameters (lines 313-346)
Assemble(kvs, canon, vs, txt, tbls) ==
    NoNulls(DictSet(DictSet(DictSet(DictSet(MergeFrom(kvs, canon, 1),
                                            VariantsKey, vs),
                                    <<"r","a","w","_","t","e","x","t">>, txt),
                            <<"r","a","w","_","t","a","b","l","e","s","_","j","s","o","n">>, JsonDumpsTables(tbls)),
                    <<"e","x","t","r","a","c","t","i","o","n","_","m","e","t","h","o","d">>, ExtractionMethod))

(***************************************************************************)
(* Inputs                                                                  *)
(***************************************************************************)
\* longest label made of arbitrary characters
MaxLabelLen == 2

\* most pages of a document
MaxPages == 2

Idle == <<>>

\* sequences over S of length at most n
SeqsUpTo(S, n) == UNION {[1..m -> S] : m \in 0..n}

LabelAlphabet == {"a", "Z", "7", "_", " ", "%", "°", "-"}

LabelWords ==
    { <<"s","e","l","e","c","t">>, <<"F","R","O","M">>, <<"W","h","e","r","e">>, <<"t","a","b","l","e">>, <<"G","r","o","u","p">>, <<"O","R","D","E","R">>,
      <<"f","_","s","e","l","e","c","t">>, <<"u","n","n","a","m","e","d">>, <<"M","o","d","u","l","e"," ","E","f","f","i","c","i","e","n","c","y">> }

\* the labels _norm_key is called with: every short string, every word of
\* LabelWords with up to one character before and after it, and None
Labels ==
    SeqsUpTo(LabelAlphabet, MaxLabelLen)
        \cup {a \o w \o b : a \in SeqsUpTo(LabelAlphabet, 1),
                            w \in LabelWords,
                            b \in SeqsUpTo(LabelAlphabet, 1)}
        \cup {None}

Page(txt, tbls) ==
    [text |-> txt, text_raises |-> FALSE, tables |-> tbls, tables_raise |-> FALSE]

TextFormatA ==
    <<"M","a","x","i","m","u","m"," ","P","o","w","e","r"," ","-"," ","P","m","a","x"," ","5","7","0"," ","5","7","5"," ","5","8","0"," ","5","8","5"," ","5","9","0","\n","M","a","x","i","m","u","m"," ","P","o","w","e","r"," ","V","o","l","t","a","g","e"," ","-"," ","V","m","p"," ","4","3",".","0"," ","4","3",".","2"," ","4","3",".","4"," ","4","3",".","6"," ","4","3",".","8">>

TextFormatB ==
    <<"S","T","C"," ","6","0","0"," ","3","9",".","3","8"," ","1","5",".","2","5"," ","4","6",".","9","5"," ","1","5",".","9","9"," ","2","2",".","2","4","\n","6","4","0"," ","4","1",".","0","5"," ","1","5",".","6","0"," ","4","7",".","9","0"," ","1","6",".","3","0"," ","2","3",".","7","0">>

TextLabels == <<"W","e","i","g","h","t",":"," ","5","k","g","\n","O","r","d","e","r",":"," ","6","6","\n","V","a","r","i","a","n","t","s",":"," ","n","o","n","e">>

TextFrame == <<"F","r","a","m","e"," ","-"," ","a","n","o","d","i","z","e","d","\n","3","1"," ","p","c","s","/","p","a","l","l","e","t","\n","R","a","w"," ","t","e","x","t",":"," ","x">>

TablesWeight ==
    << << <<<<"W","e","i","g","h","t">>, <<"9"," ","k","g">>>>, <<<<"F","r","a","m","e">>, None, <<"a","l","l","o","y">>>> >> >>

TablesCell ==
    << << <<None, <<>>>>, <<<<"C","e","l","l"," ","T","y","p","e">>, <<"N","-","t","y","p","e">>, <<"5","\""," ","x","\n","\\">>>> >>,
       << <<>>, <<<<"G","r","o","u","p">>, <<"A">>>> >> >>

PagePool ==
    { Page(TextFormatA, <<>>),
      Page(TextFormatB, <<>>),
      Page(TextLabels, TablesWeight),
      Page(TextFrame, TablesCell),
      Page(None, TablesWeight),
      [Page(TextLabels, TablesCell) EXCEPT !.tables_raise = TRUE],
      [Page(TextFrame, <<>>) EXCEPT !.text_raises = TRUE] }

\* a document: unreadable, or up to MaxPages pages
Pdfs ==
    {[readable |-> FALSE, pages |-> <<>>]}
        \cup {[readable |-> TRUE, pages |-> ps] : ps \in SeqsUpTo(PagePool, MaxPages)}

\* most rows of a tables argument, most lines of a text argument
MaxRows == 3

MaxLines == 3

RowPool ==
    { <<<<"W","e","i","g","h","t">>, <<"1","0">>>>,
      <<<<" ","w","e","i","g","h","t"," ">>, <<"2","0">>>>,
      <<<<"W","e","i","g","h","t">>, <<>>>>,
      <<None, <<"F","r","a","m","e">>, <<"a","l","l","o","y">>, <<"e","x","t","r","a">>>>,
      <<<<"W","t">>, <<"5">>>>,
      <<<<"C","o","l","o","r">>, <<" ","\t">>, <<"b","l","a","c","k"," "," "," ","m","a","t","t">>>>,
      <<>> }

\* the rows in one table, or split into two tables at any point
TablesInputs ==
    UNION {{<<SubSeq(rs, 1, n), SubSeq(rs, n + 1, Len(rs))>> : n \in 0..Len(rs)} :
              rs \in SeqsUpTo(RowPool, MaxRows)}

LinePool ==
    { <<"W","e","i","g","h","t",":"," ","1","0">>,
      <<"w","e","i","g","h","t"," ",":"," ","2","0">>,
      <<"W","e","i","g","h","t",":">>,
      <<"N","e","t"," "," ","W","e","i","g","h","t"," "," ","3","0">>,
      <<"W","t",":"," ","5","5","5">>,
      <<"O","r","d","e","r",":"," ","1",":","2">>,
      <<>> }

LineTexts == {Join(ls, <<"\n">>) : ls \in SeqsUpTo(LinePool, MaxLines)}

\* most numeric tokens on a metric line
MaxTokens == 6

PowerTokens == << <<"5","7","0">>, <<"5","7","5">>, <<"5","8","0">>, <<"5","8","5">>, <<"5","9","0">>, <<"5","9","5">>, <<"6","0","0">> >>

\* a Pmax line that prints the 580 W bin twice
RepeatTokens == << <<"5","8","0">>, <<"5","8","0">>, <<"5","8","5">>, <<"5","9","0">>, <<"5","9","5">> >>

VoltTokens == << <<"4","3",".","0">>, <<"4","3",".","2">>, <<"4","3",".","4">>, <<"4","3",".","6">>, <<"4","3",".","8">>, <<"4","4",".","0">>, <<"4","4",".","2">> >>

EffTokens == << <<"2","1",".","8">>, <<"2","2",".","0">>, <<"2","2",".","2">>, <<"2","2",".","4">>, <<"2","2",".","6">>, <<"2","2",".","8">> >>

\* a metric line: the label and the first n of toks
MetricLine(lbl, toks, n) == Join(<<lbl>> \o SubSeq(toks, 1, n), <<" ">>)

\* the lines that may follow the NOCT header
NoctPlain ==
    << <<"4","3","0"," ","4","3","3"," ","4","3","7"," ","4","4","1"," ","4","4","5">>,
       <<"4","0",".","5"," ","4","0",".","6"," ","4","0",".","7"," ","4","0",".","8"," ","4","0",".","9">>,
       <<"1","0",".","6"," ","1","0",".","7"," ","1","0",".","8"," ","1","0",".","9"," ","1","1",".","0">>,
       <<"4","8",".","1"," ","4","8",".","2"," ","4","8",".","3"," ","4","8",".","4"," ","4","8",".","5">>,
       <<"1","1",".","1"," ","1","1",".","2"," ","1","1",".","3"," ","1","1",".","4"," ","1","1",".","5">> >>

NoctOdd ==
    << <<"P","m","a","x"," ","4","3","0"," ","4","3","3"," ","4","3","7"," ","4","4","1"," ","4","4","5">>,
       <<"4","0",".","5"," ","4","0",".","6"," ","4","0",".","7"," ","4","0",".","8"," ","4","0",".","9"," ","4","1",".","0">>,
       <<"1","0",".","6"," ","1","0",".","7"," ","1","0",".","8"," ","1","0",".","9">>,
       <<"4","8",".","1"," ","4","8",".","2"," ","4","8",".","3"," ","4","8",".","4"," ","4","8",".","5">>,
       <<"1","1",".","1"," ","1","1",".","2"," ","1","1",".","3"," ","1","1",".","4"," ","1","1",".","5">> >>

\* the texts _parse_jinko_like_variants is called with: an optional Pmax
\* line of 0..MaxTokens numbers, optional Vmp and efficiency lines, and an optional NOCT
\* header followed by 0..5 lines
JinkoTexts ==
    {Join(pm \o vm \o nb, <<"\n">>) :
        pm \in {<<>>, <<MetricLine(MetricLabels[1], RepeatTokens, 5)>>}
                  \cup {<<MetricLine(MetricLabels[1], PowerTokens, n)>> : n \in 0..MaxTokens},
        vm \in {<<>>, <<MetricLine(MetricLabels[2], VoltTokens, 5)>>,
                      <<MetricLine(MetricLabels[2], VoltTokens, 4)>>,
                      <<MetricLine(MetricLabels[6], EffTokens, 6)>>,
                      <<MetricLine(MetricLabels[2], VoltTokens, 5),
                        MetricLine(MetricLabels[6], EffTokens, 6)>>},
        nb \in {<<>>} \cup {<<NoctHeader>> \o SubSeq(ls, 1, k) :
                               ls \in {NoctPlain, NoctOdd}, k \in 0..5}}

\* most blocks of a Format B text
MaxBlocks == 2

BlockPool ==
    { <<"6","0","0"," ","3","9",".","3","8"," ","1","5",".","2","5"," ","4","6",".","9","5"," ","1","5",".","9","9"," ","2","2",".","2","4">>,
      <<"6","0","0"," ","4","0",".","0","0"," ","1","5",".","0","0"," ","4","7",".","0","0"," ","1","6",".","0","0"," ","2","2",".","5","0">>,
      <<"6","4","0"," ","4","1",".","0","5"," ","1","5",".","6","0"," ","4","7",".","9","0"," ","1","6",".","3","0"," ","2","3",".","7","0">>,
      <<"9","9","9"," ","5",".","0"," ","2","0","0",".","0"," ","5",".","0"," ","5",".","0"," ","5",".","0">>,
      <<"8","0","0"," ","8","0",".","0"," ","1",".","0"," ","9","0",".","0","0"," ","1",".","0"," ","3","0",".","0">>,
      <<"5","0","0"," ","2","0",".","0"," ","1",".","0"," ","3","0",".","0"," ","1",".","0"," ","1","0",".","0">>,
      <<"4","9","9"," ","5","0",".","0"," ","1",".","0"," ","5","0",".","0"," ","1",".","0"," ","2","0",".","0">>,
      <<"8","0","1"," ","5","0",".","0"," ","1",".","0"," ","5","0",".","0"," ","1",".","0"," ","2","0",".","0">>,
      <<"7","0","0"," ","8","0",".","0","1"," ","1",".","0"," ","5","0",".","0"," ","1",".","0"," ","2","0",".","0">>,
      <<"7","0","0"," ","1","9",".","9","9"," ","1",".","0"," ","5","0",".","0"," ","1",".","0"," ","2","0",".","0">>,
      <<"7","0","0"," ","5","0",".","0"," ","1",".","0"," ","9","0",".","5"," ","1",".","0"," ","2","0",".","0">>,
      <<"7","0","0"," ","5","0",".","0"," ","1",".","0"," ","2","9",".","9"," ","1",".","0"," ","2","0",".","0">>,
      <<"7","0","0"," ","5","0",".","0"," ","1",".","0"," ","5","0",".","0"," ","1",".","0"," ","3","0",".","0","1">>,
      <<"7","0","0"," ","5","0",".","0"," ","1",".","0"," ","5","0",".","0"," ","1",".","0"," ","9",".","9","9">>,
      <<"6","0","0"," ","5",".","0"," ","1","5",".","2","5"," ","4","6",".","9","5"," ","1","5",".","9","9"," ","2","2",".","2","4">> }

\* longest run of a power ladder printed on one sheet
MaxLadder == 8

\* the Pmax values of two product families, in rising order
Ladders ==
    { << <<"5","9","9">>, <<"6","0","0">>, <<"6","1","0">>, <<"6","2","0">>, <<"6","2","5">>, <<"6","2","6">>,
         <<"6","3","0">>, <<"6","4","0">>, <<"6","5","0">>, <<"6","6","0">>, <<"6","7","0">>, <<"6","8","0">> >>,
      << <<"6","0","0">>, <<"6","0","3">>, <<"6","0","5">>, <<"6","1","0">>, <<"6","1","5">>, <<"6","2","0">>, <<"6","2","5">>, <<"6","3","0">> >> }

\* the block of a ladder's Pmax value
LadderBlock(p) == p \o <<" ","4","0",".","0"," ","1",".","0"," ","4","8",".","0"," ","1",".","0"," ","2","2",".","0">>

Reversed(q) == [i \in DOMAIN q |-> q[Len(q) + 1 - i]]

\* the sheets that print a run of a ladder, lowest or highest power first
LadderTexts ==
    UNION {{Join([i \in 1..n |-> LadderBlock(q[a + i - 1])], <<"\n">>),
            Join(Reversed([i \in 1..n |-> LadderBlock(q[a + i - 1])]), <<"\n">>)} :
              <<q, a, n>> \in {t \in Ladders \X (1..12) \X (1..MaxLadder) :
                                  t[2] + t[3] - 1 <= Len(t[1])}}

\* most repetitions of one power bin on a sheet
MaxRepeats == 3

\* the blocks a sheet repeats for the 600 W bin: two plausible, one not
RepeatPool ==
    { <<"6","0","0"," ","3","9",".","3","8"," ","1","5",".","2","5"," ","4","6",".","9","5"," ","1","5",".","9","9"," ","2","2",".","2","4">>,
      <<"6","0","0"," ","4","0",".","0","0"," ","1","5",".","0","0"," ","4","7",".","0","0"," ","1","6",".","0","0"," ","2","2",".","5","0">>,
      <<"6","0","0"," ","5",".","0"," ","1","5",".","2","5"," ","4","6",".","9","5"," ","1","5",".","9","9"," ","2","2",".","2","4">> }

RepeatTexts == {Join(bs, <<"\n">>) : bs \in SeqsUpTo(RepeatPool, MaxRepeats)}

\* most lines printed under the NOCT line of a sheet
MaxNoctLines == 4

\* the STC blocks of the sheets that print a NOCT block
NoctStc ==
    << <<"6","0","0"," ","4","0",".","0"," ","1",".","0"," ","4","8",".","0"," ","1",".","0"," ","2","2",".","0">>, <<"6","0","5"," ","4","0",".","1"," ","1",".","0"," ","4","8",".","1"," ","1",".","0"," ","2","2",".","1">>,
       <<"6","1","0"," ","4","0",".","2"," ","1",".","0"," ","4","8",".","2"," ","1",".","0"," ","2","2",".","2">> >>

\* the ways the NOCT line is printed
NoctLinePool ==
    { <<"N","O","C","T"," ","@","8","0","0","W","/","m","2"," ","6","0","0"," ","6","0","5"," ","6","1","0">>, <<"N","O","C","T"," ","@","8","0","0"," ","W","/","m","2"," ","6","0","0"," ","6","0","5"," ","6","1","0">>,
      <<"N","o","c","t"," ","(","@","8","0","0","W","/","m","2",")"," ","6","0","0"," ","6","1","0">>, <<"6","0","0"," ","6","0","5"," ","6","1","0"," ","N","O","C","T"," ","@","8","0","0"," ","W","/","m","2">> }

\* the lines under the NOCT line, with a full and a short Vmp line
NoctUnder ==
    { << <<"P","m","a","x"," ","4","5","0",".","1"," ","4","5","3",".","9"," ","4","5","7",".","6">>, v, <<"I","m","p"," ","1","2",".","1"," ","1","2",".","2"," ","1","2",".","3">>,
         <<"T","e","m","p","e","r","a","t","u","r","e"," ","4","5">>, <<"I","E","C"," ","6","1","2","1","5">> >> :
        v \in { <<"V","m","p"," ","3","7",".","1"," ","3","7",".","2"," ","3","7",".","3">>, <<"V","m","p"," ","3","7",".","1"," ","3","7",".","2">> } }

NoctTexts ==
    {Join(SubSeq(NoctStc, 1, n) \o <<h>> \o SubSeq(u, 1, k), <<"\n">>) :
        n \in 2..3, h \in NoctLinePool, u \in NoctUnder,
        k \in 0..Min2(MaxNoctLines, 5)}

\* the texts _parse_renewsys_like_variants is called with: one block a line
RenewsysTexts ==
    {Join(bs, <<"\n">>) : bs \in SeqsUpTo(BlockPool, MaxBlocks)}
        \cup LadderTexts \cup RepeatTexts \cup NoctTexts

(***************************************************************************)
(* Calls                                                                   *)
(***************************************************************************)
InitNormKey ==
    /\ pc = "norm_key"
    /\ label \in Labels
    /\ key = Idle
    /\ tables = Idle /\ text = Idle /\ todo = Idle /\ out_kv = Idle
    /\ pdf = Idle /\ all_text = Idle /\ all_tables = Idle /\ kv = Idle
    /\ canonical = Idle /\ out = Idle /\ variants = Idle
    /\ events = Idle /\ meta = Idle /\ reads = Idle /\ written = Idle /\ responses = Idle

InitExtract ==
    /\ pc = "extract_parameters"
    /\ pdf \in Pdfs
    /\ label = Idle /\ key = Idle
    /\ tables = Idle /\ text = Idle /\ todo = Idle /\ out_kv = Idle
    /\ all_text = Idle /\ all_tables = Idle /\ kv = Idle
    /\ canonical = Idle /\ out = Idle /\ variants = Idle
    /\ events = Idle /\ meta = Idle /\ reads = Idle /\ written = Idle /\ responses = Idle

Init == InitNormKey \/ InitExtract

\* _norm_key(label) returns
NormKeyCall ==
    /\ pc = "norm_key"
    /\ key' = NormKey(label)
    /\ pc' = "norm_key_returned"
    /\ UNCHANGED <<label, tables, text, todo, out_kv,
                   pdf, all_text, all_tables, kv, canonical, out, variants>>
    /\ UNCHANGED <<events, meta, reads, written, responses>>

\* extract_parameters raises: pdfplumber.open fails, or a page's extract_text
\* does (nothing catches either)
ExtractRaises ==
    /\ pc = "extract_parameters"
    /\ ~pdf.readable \/ ReadPages(pdf.pages, Len(pdf.pages)).text = None
    /\ pc' = "extract_raised"
    /\ UNCHANGED <<label, key, tables, text, todo, out_kv,
                   pdf, all_text, all_tables, kv, canonical, out, variants>>
    /\ UNCHANGED <<events, meta, reads, written, responses>>

\* extract_parameters returns out
ExtractReturns ==
    /\ pc = "extract_parameters"
    /\ pdf.readable
    /\ ReadPages(pdf.pages, Len(pdf.pages)).text # None
    /\ all_text' = ReadPages(pdf.pages, Len(pdf.pages)).text
    /\ all_tables' = ReadPages(pdf.pages, Len(pdf.pages)).tables
    /\ kv' = GenericKv(all_tables', all_text')
    /\ canonical' = Canonical(all_text')
    /\ variants' = SelectVariants(all_text')
    /\ out' = Assemble(kv', canonical', variants', all_text', all_tables')
    /\ pc' = "extract_returned"
    /\ UNCHANGED <<label, key, tables, text, todo, out_kv, pdf>>
    /\ UNCHANGED <<events, meta, reads, written, responses>>

Next == NormKeyCall \/ ExtractRaises \/ ExtractReturns

Spec == Init /\ [][Next]_vars

(***************************************************************************)
(* The generic extractors, one loop iteration a step                       *)
(***************************************************************************)
InitKvTables ==
    /\ pc = "kv_tables"
    /\ tables \in TablesInputs
    /\ todo = AllRows(tables)
    /\ out_kv = EmptyDict
    /\ text = Idle /\ label = Idle /\ key = Idle
    /\ pdf = Idle /\ all_text = Idle /\ all_tables = Idle /\ kv = Idle
    /\ canonical = Idle /\ out = Idle /\ variants = Idle
    /\ events = Idle /\ meta = Idle /\ reads = Idle /\ written = Idle /\ responses = Idle

InitKvLines ==
    /\ pc = "kv_lines"
    /\ text \in LineTexts
    /\ todo = SplitLines(text)
    /\ out_kv = EmptyDict
    /\ tables = Idle /\ label = Idle /\ key = Idle
    /\ pdf = Idle /\ all_text = Idle /\ all_tables = Idle /\ kv = Idle
    /\ canonical = Idle /\ out = Idle /\ variants = Idle
    /\ events = Idle /\ meta = Idle /\ reads = Idle /\ written = Idle /\ responses = Idle

InitKv == InitKvTables \/ InitKvLines

\* one row of _extract_kv_from_tables
KvTablesRow ==
    /\ pc = "kv_tables"
    /\ todo # <<>>
    /\ out_kv' = TableRowStep(out_kv, Head(todo))
    /\ todo' = Tail(todo)
    /\ UNCHANGED <<pc, label, key, tables, text,
                   pdf, all_text, all_tables, kv, canonical, out, variants>>
    /\ UNCHANGED <<events, meta, reads, written, responses>>

\* one line of _extract_kv_from_lines
KvLinesLine ==
    /\ pc = "kv_lines"
    /\ todo # <<>>
    /\ out_kv' = LineStep(out_kv, Head(todo))
    /\ todo' = Tail(todo)
    /\ UNCHANGED <<pc, label, key, tables, text,
                   pdf, all_text, all_tables, kv, canonical, out, variants>>
    /\ UNCHANGED <<events, meta, reads, written, responses>>

\* the loop is over: return out
KvReturns ==
    /\ pc \in {"kv_tables", "kv_lines"}
    /\ todo = <<>>
    /\ pc' = IF pc = "kv_tables" THEN "kv_tables_returned" ELSE "kv_lines_returned"
    /\ UNCHANGED <<label, key, tables, text, todo, out_kv,
                   pdf, all_text, all_tables, kv, canonical, out, variants>>
    /\ UNCHANGED <<events, meta, reads, written, responses>>

NextKv == KvTablesRow \/ KvLinesLine \/ KvReturns

SpecKv == InitKv /\ [][NextKv]_vars

(***************************************************************************)
(* The variant parsers                                                     *)
(***************************************************************************)
InitJinko ==
    /\ pc = "jinko"
    /\ text \in JinkoTexts
    /\ variants = Idle
    /\ tables = Idle /\ label = Idle /\ key = Idle /\ todo = Idle /\ out_kv = Idle
    /\ pdf = Idle /\ all_text = Idle /\ all_tables = Idle /\ kv = Idle
    /\ canonical = Idle /\ out = Idle
    /\ events = Idle /\ meta = Idle /\ reads = Idle /\ written = Idle /\ responses = Idle

\* _parse_jinko_like_variants(text) returns
JinkoCall ==
    /\ pc = "jinko"
    /\ variants' = ParseJinkoLikeVariants(text)
    /\ pc' = "jinko_returned"
    /\ UNCHANGED <<label, key, tables, text, todo, out_kv,
                   pdf, all_text, all_tables, kv, canonical, out>>
    /\ UNCHANGED <<events, meta, reads, written, responses>>

SpecJinko == InitJinko /\ [][JinkoCall]_vars

InitRenewsys ==
    /\ pc = "renewsys"
    /\ text \in RenewsysTexts
    /\ variants = Idle
    /\ tables = Idle /\ label = Idle /\ key = Idle /\ todo = Idle /\ out_kv = Idle
    /\ pdf = Idle /\ all_text = Idle /\ all_tables = Idle /\ kv = Idle
    /\ canonical = Idle /\ out = Idle
    /\ events = Idle /\ meta = Idle /\ reads = Idle /\ written = Idle /\ responses = Idle

\* _parse_renewsys_like_variants(text) returns
RenewsysCall ==
    /\ pc = "renewsys"
    /\ variants' = ParseRenewsysLikeVariants(text)
    /\ pc' = "renewsys_returned"
    /\ UNCHANGED <<label, key, tables, text, todo, out_kv,
                   pdf, all_text, all_tables, kv, canonical, out>>
    /\ UNCHANGED <<events, meta, reads, written, responses>>

SpecRenewsys == InitRenewsys /\ [][RenewsysCall]_vars

(***************************************************************************)
(* The extractor service: eventarc_receiver of main.py                     *)
(***************************************************************************)
\* os.getenv("GCS_BUCKET", "brahma-hq-prod")
BucketEnv == <<"b","r","a","h","m","a","-","h","q","-","p","r","o","d">>

RawPrefix == <<"0","1","_","R","a","w","_","C","a","t","a","l","o","g","u","e","s","/","m","o","d","u","l","e","s","/">>

\* str.replace(old, new) for a non-empty old
RECURSIVE ReplaceStr(_, _, _)
ReplaceStr(s, old, new) ==
    IF Len(s) < Len(old) THEN s
    ELSE IF SubSeq(s, 1, Len(old)) = old
         THEN new \o ReplaceStr(SubSeq(s, Len(old) + 1, Len(s)), old, new)
         ELSE <<Head(s)>> \o ReplaceStr(Tail(s), old, new)

StartsWith(s, p) == Len(s) >= Len(p) /\ SubSeq(s, 1, Len(p)) = p

EndsWith(s, p) == Len(s) >= Len(p) /\ SubSeq(s, Len(s) - Len(p) + 1, Len(s)) = p

\* variant: every named object under the prefix is let through
AcceptedAnySuffix(name) ==
    /\ name # None /\ name # EmptyStr
    /\ StartsWith(name, RawPrefix)

\* the two filters of lines 31-36 let the object name through
Accepted(name) ==
    /\ name # None /\ name # EmptyStr
    /\ StartsWith(name, RawPrefix) /\ EndsWith(name, <<".","p","d","f">>)

\* body.get("bucket") or BUCKET_ENV
BucketOf(ev) == IF ev.bucket = None \/ ev.bucket = EmptyStr THEN BucketEnv ELSE ev.bucket

MetaName(name) == ReplaceStr(name, <<".","p","d","f">>, <<"_","m","e","t","a","d","a","t","a",".","j","s","o","n">>)

OutName(name) ==
    ReplaceStr(ReplaceStr(name, <<"0","1","_","R","a","w","_","C","a","t","a","l","o","g","u","e","s">>, <<"0","2","_","C","a","n","d","i","d","a","t","e","s">>), <<".","p","d","f">>, <<".","j","s","o","n">>)

GsPath(bucket, name) == <<"g","s",":","/","/">> \o bucket \o <<"/">> \o name

\* variant: an unreadable document is taken for one without pages
ExtractionRaisesOnTextOnly(doc) == ReadPages(doc.pages, Len(doc.pages)).text = None

\* extract_parameters(pdf_bytes) raises: pdfplumber.open fails or a page's
\* extract_text does
ExtractionRaises(doc) ==
    ~doc.readable \/ ReadPages(doc.pages, Len(doc.pages)).text = None

\* the record extract_parameters builds from what the page loop read
RecordOf(read) ==
    Assemble(GenericKv(read.tables, read.text), Canonical(read.text),
             SelectVariants(read.text), read.text, read.tables)

\* extract_parameters(pdf_bytes), when it returns
ExtractParameters(doc) == RecordOf(ReadPages(doc.pages, Len(doc.pages)))

\* variant: the uploader's metadata is laid over the extracted record
CandidateMetaWins(m, extracted, bucket, name) ==
    DictSet(DictSet(DictUpdate(extracted, m),
                    <<"s","o","u","r","c","e","_","p","d","f">>, GsPath(bucket, name)),
            <<"s","o","u","r","c","e","_","m","e","t","a","d","a","t","a">>, GsPath(bucket, MetaName(name)))

\* {**meta, **extracted, "source_pdf": ..., "source_metadata": ...}
Candidate(m, extracted, bucket, name) ==
    DictSet(DictSet(DictUpdate(m, extracted),
                    <<"s","o","u","r","c","e","_","p","d","f">>, GsPath(bucket, name)),
            <<"s","o","u","r","c","e","_","m","e","t","a","d","a","t","a">>, GsPath(bucket, MetaName(name)))

\* most storage events delivered to the service
MaxEvents == 2

EventPool ==
    { [bucket |-> None, name |-> <<"0","1","_","R","a","w","_","C","a","t","a","l","o","g","u","e","s","/","m","o","d","u","l","e","s","/","a",".","p","d","f">>],
      [bucket |-> <<"b","2">>, name |-> <<"0","1","_","R","a","w","_","C","a","t","a","l","o","g","u","e","s","/","m","o","d","u","l","e","s","/","a",".","p","d","f">>],
      [bucket |-> None, name |-> <<"0","1","_","R","a","w","_","C","a","t","a","l","o","g","u","e","s","/","m","o","d","u","l","e","s","/","a","_","m","e","t","a","d","a","t","a",".","j","s","o","n">>],
      [bucket |-> None, name |-> <<"0","2","_","C","a","n","d","i","d","a","t","e","s","/","m","o","d","u","l","e","s","/","a",".","j","s","o","n">>],
      [bucket |-> None, name |-> <<"0","1","_","R","a","w","_","C","a","t","a","l","o","g","u","e","s","/","i","n","v","e","r","t","e","r","s","/","a",".","p","d","f">>],
      [bucket |-> None, name |-> None] }

\* a sheet whose labels are keys of the upload metadata and of the service
TextSource == <<"M","o","d","e","l",":"," ","J","K","M","\n","S","o","u","r","c","e"," ","p","d","f",":"," ","s","c","a","n">>

\* what the bucket holds as the PDF of an event
ServicePdfs ==
    { [readable |-> FALSE, pages |-> <<>>],
      [readable |-> TRUE, pages |-> <<Page(TextLabels, TablesWeight)>>],
      [readable |-> TRUE, pages |-> <<Page(TextSource, <<>>)>>],
      [readable |-> TRUE,
       pages |-> <<Page(TextFormatB, <<>>), [Page(TextFrame, <<>>) EXCEPT !.text_raises = TRUE]>>] }

\* what the bucket holds as its metadata object: nothing, or a JSON object
MetaPool ==
    { [exists |-> FALSE, obj |-> EmptyDict],
      [exists |-> TRUE, obj |-> DictSet(DictSet(EmptyDict, <<"m","o","d","e","l">>, <<"X","1">>), <<"m","a","n","u","f","a","c","t","u","r","e","r">>, <<"A","c","m","e">>)],
      [exists |-> TRUE, obj |-> DictSet(DictSet(EmptyDict, <<"w","e","i","g","h","t">>, <<"1"," ","k","g">>), <<"s","o","u","r","c","e","_","p","d","f">>, <<"o","l","d">>)] }

InitService ==
    /\ pc = "eventarc_receiver"
    /\ events \in SeqsUpTo(EventPool, MaxEvents)
    /\ pdf \in ServicePdfs
    /\ meta \in MetaPool
    /\ reads = <<>>
    /\ written = EmptyDict
    /\ responses = <<>>
    /\ out = Idle
    /\ label = Idle /\ key = Idle /\ tables = Idle /\ text = Idle /\ todo = Idle
    /\ out_kv = Idle /\ all_text = Idle /\ all_tables = Idle /\ kv = Idle
    /\ canonical = Idle /\ variants = Idle

\* the event has no name or a name outside the prefix: {"status": "ignored"}
ReceiverIgnores ==
    /\ events # <<>>
    /\ ~Accepted(Head(events).name)
    /\ responses' = Append(responses, "ignored")
    /\ events' = Tail(events)
    /\ UNCHANGED <<pc, label, key, tables, text, todo, out_kv, pdf, all_text,
                   all_tables, kv, canonical, out, variants, meta, reads, written>>

\* reading the metadata object or extract_parameters raises: the handler
\* ends with the exception and nothing is written
ReceiverRaises ==
    /\ events # <<>>
    /\ Accepted(Head(events).name)
    /\ ~meta.exists \/ ExtractionRaises(pdf)
    /\ reads' = reads \o (IF meta.exists
                           THEN <<MetaName(Head(events).name), Head(events).name>>
                           ELSE <<MetaName(Head(events).name)>>)
    /\ responses' = Append(responses, "error")
    /\ events' = Tail(events)
    /\ UNCHANGED <<pc, label, key, tables, text, todo, out_kv, pdf, all_text,
                   all_tables, kv, canonical, out, variants, meta, written>>

\* the handler runs to its end: the candidate is written (the object is its
\* JSON text; written keeps the dict it encodes)
ReceiverWrites ==
    /\ events # <<>>
    /\ Accepted(Head(events).name)
    /\ meta.exists
    /\ ~ExtractionRaises(pdf)
    /\ reads' = reads \o <<MetaName(Head(events).name), Head(events).name>>
    /\ out' = ExtractParameters(pdf)
    /\ written' = DictSet(written, OutName(Head(events).name),
                          Candidate(meta.obj, out', BucketOf(Head(events)), Head(events).name))
    /\ responses' = Append(responses, "ok")
    /\ events' = Tail(events)
    /\ UNCHANGED <<pc, label, key, tables, text, todo, out_kv, pdf, all_text,
                   all_tables, kv, canonical, variants, meta>>

NextService == ReceiverIgnores \/ ReceiverRaises \/ ReceiverWrites

SpecService == InitService /\ [][NextService]_vars

(***************************************************************************)
(* Properties of extract_parameters and _norm_key                          *)
(***************************************************************************)
Returned == pc = "extract_returned"

VariantFields ==
    {"pmax_w", "vmp_v", "imp_a", "voc_v", "isc_a", "efficiency_pct",
     "noct_pmax_w", "noct_vmp_v", "noct_imp_a", "noct_voc_v", "noct_isc_a"}

\* C1: in every record extract_parameters returns, every field value is a
\* string and every variant maps each of the eleven variant keys to a string;
\* no value is the null marker.
NoNullInvariant ==
    Returned =>
        /\ \A k \in DOMAIN out \ {VariantsKey} : out[k] # None
        /\ \A i \in DOMAIN out[VariantsKey] :
              /\ VariantFields \subseteq DOMAIN out[VariantsKey][i]
              /\ \A f \in VariantFields : out[VariantsKey][i][f] # None

\* a record with an empty field and a variant with an empty NOCT value
NoNullWitness ==
    /\ Returned
    /\ \E k \in DOMAIN out \ {VariantsKey} : out[k] = EmptyStr
    /\ \E i \in DOMAIN out[VariantsKey] :
          /\ out[VariantsKey][i]["noct_pmax_w"] = EmptyStr
          /\ out[VariantsKey][i]["pmax_w"] # EmptyStr

ExpectedColumns ==
    { <<"p","o","w","e","r","_","t","o","l","e","r","a","n","c","e">>, <<"t","e","m","p","e","r","a","t","u","r","e","_","n","o","c","t">>, <<"m","a","x","i","m","u","m","_","s","y","s","t","e","m","_","v","o","l","t","a","g","e">>,
      <<"m","a","x","i","m","u","m","_","s","e","r","i","e","s","_","f","u","s","e","_","r","a","t","i","n","g">>, <<"r","e","f","e","r","_","b","i","f","a","c","i","a","l","_","f","a","c","t","o","r">>,
      <<"t","e","m","p","e","r","a","t","u","r","e","_","c","o","e","f","f","i","c","i","e","n","t","_","p","m","a","x">>, <<"t","e","m","p","e","r","a","t","u","r","e","_","c","o","e","f","f","i","c","i","e","n","t","_","v","o","c">>,
      <<"t","e","m","p","e","r","a","t","u","r","e","_","c","o","e","f","f","i","c","i","e","n","t","_","i","s","c">>, <<"d","i","m","e","n","s","i","o","n","s">>, <<"w","e","i","g","h","t">>,
      <<"f","r","o","n","t","_","g","l","a","s","s">>, <<"b","a","c","k","_","g","l","a","s","s">>, <<"f","r","a","m","e">>, <<"j","u","n","c","t","i","o","n","_","b","o","x">>,
      <<"p","r","o","t","e","c","t","i","o","n","_","c","l","a","s","s">>, <<"i","e","c","_","f","i","r","e","_","t","y","p","e">>, <<"o","u","t","p","u","t","_","c","a","b","l","e","s">>,
      <<"p","a","l","l","e","t","_","d","i","m","e","n","s","i","o","n","s">>, <<"p","a","c","k","i","n","g","_","d","e","t","a","i","l","s">> }

\* C2: in every record extract_parameters returns, each of the 19 canonical
\* field names is a key, whether or not a pattern or a generic extractor
\* matched it.
KeyPresence == Returned => ExpectedColumns \subseteq DOMAIN out

\* a field that no pattern and no generic extractor matched is a key
KeyPresenceWitness ==
    /\ Returned
    /\ \E f \in ExpectedColumns :
          /\ canonical[f] = EmptyStr
          /\ f \notin DOMAIN kv
          /\ f \in DOMAIN out
    /\ \E g \in ExpectedColumns : canonical[g] # EmptyStr

KeySafe(k) ==
    /\ k # <<>>
    /\ \A i \in DOMAIN k : k[i] \in KeyChars \cup {"_"}
    /\ k \notin { <<"s","e","l","e","c","t">>, <<"f","r","o","m">>, <<"w","h","e","r","e">>, <<"t","a","b","l","e">>, <<"g","r","o","u","p">>, <<"o","r","d","e","r">> }

\* C3: _norm_key returns, for every label, a non-empty string over [a-z0-9_]
\* that is not a reserved word; so every key of the generic map and of the
\* returned record is one.
KeySafety ==
    /\ pc = "norm_key_returned" => KeySafe(key)
    /\ Returned => /\ \A k \in DOMAIN kv : KeySafe(k)
                   /\ \A k \in DOMAIN out : KeySafe(k)

\* a reserved word got its prefix
KeySafetyWitness ==
    /\ pc = "norm_key_returned"
    /\ label = <<"O","R","D","E","R">>
    /\ key = <<"f","_","o","r","d","e","r">>

\* C4: when a table row and a text line yield the same key with non-empty
\* values, the generic map holds the table's value; a line's value is stored
\* only for a key the tables left absent or empty.
TablesTakePrecedence ==
    Returned =>
        \A k \in DOMAIN ExtractKvFromTables(all_tables) :
            ExtractKvFromTables(all_tables)[k] # EmptyStr
                => kv[k] = ExtractKvFromTables(all_tables)[k]

\* C5: for every canonical field, a non-empty canonical value is the
\* record's value whatever the generic extractors found; an empty one leaves
\* the generic value when there is one, and the empty string otherwise.
OverridePrecedence ==
    Returned =>
        \A f \in ExpectedColumns :
            IF canonical[f] # EmptyStr THEN out[f] = canonical[f]
            ELSE IF f \in DOMAIN kv THEN out[f] = kv[f]
            ELSE out[f] = EmptyStr

\* one field where the canonical value replaced a different generic value,
\* another where the generic value stayed because no pattern matched
OverridePrecedenceWitness ==
    /\ Returned
    /\ \E f \in ExpectedColumns :
          /\ canonical[f] # EmptyStr
          /\ f \in DOMAIN kv
          /\ kv[f] # canonical[f]
          /\ out[f] = canonical[f]
    /\ \E g \in ExpectedColumns :
          /\ canonical[g] = EmptyStr
          /\ g \in DOMAIN kv
          /\ kv[g] # EmptyStr
          /\ out[g] = kv[g]

\* C7: the record's variant list is Format A's result when that is
\* non-empty and Format B's result exactly when Format A yields none; no
\* Format B row is mixed into a record whose Format A result is non-empty.
FormatFallback ==
    Returned =>
        /\ ParseJinkoLikeVariants(all_text) # <<>>
              => /\ out[VariantsKey] = ParseJinkoLikeVariants(all_text)
                 /\ variants = ParseJinkoLikeVariants(all_text)
        /\ ParseJinkoLikeVariants(all_text) = <<>>
              => /\ out[VariantsKey] = ParseRenewsysLikeVariants(all_text)
                 /\ variants = ParseRenewsysLikeVariants(all_text)

\* both parsers find variants and the record holds Format A's only
FormatFallbackWitness ==
    /\ Returned
    /\ ParseJinkoLikeVariants(all_text) # <<>>
    /\ ParseRenewsysLikeVariants(all_text) # <<>>
    /\ Len(out[VariantsKey]) = Len(ParseJinkoLikeVariants(all_text))
    /\ out[VariantsKey][1]["pmax_w"] = <<"5","7","0">>

(***************************************************************************)
(* Properties of the generic extractors                                    *)
(***************************************************************************)
\* C6: within one generic extraction stage, once a key holds a non-empty
\* value no later row (line) changes it; a later value is stored only for a
\* key that is absent or holds the empty string.
FirstNonEmptyWins ==
    [][/\ \A k \in DOMAIN out_kv :
             out_kv[k] # EmptyStr
                 => k \in DOMAIN out_kv' /\ out_kv'[k] = out_kv[k]
       /\ \A k \in DOMAIN out_kv' :
             k \in DOMAIN out_kv /\ out_kv'[k] # out_kv[k]
                 => out_kv[k] = EmptyStr]_vars

\* two rows with the same key were processed and the first value is kept
FirstNonEmptyWinsWitness ==
    /\ pc = "kv_tables"
    /\ todo = <<>>
    /\ AllRows(tables) = << <<<<"W","e","i","g","h","t">>, <<"1","0">>>>, <<<<" ","w","e","i","g","h","t"," ">>, <<"2","0">>>> >>
    /\ out_kv = DictSet(EmptyDict, <<"w","e","i","g","h","t">>, <<"1","0">>)

\* the cells of a row that are not null and not blank, whitespace-normalized
RemainingCells(row) ==
    LET kept == SelectSeq(row, LAMBDA c : c # None /\ NormWs(c) # EmptyStr)
    IN  [i \in DOMAIN kept |-> NormWs(kept[i])]

\* the row contributes a pair: two cells remain and the label has 3 characters
RowContributes(row) ==
    Len(RemainingCells(row)) >= 2 /\ Len(RemainingCells(row)[1]) >= 3

\* acc2 is acc after the pair (k, v) was offered to it: a new key is added
\* with v, a key already present keeps its value or takes v
Offered(acc, acc2, k, v) ==
    /\ DOMAIN acc2 = DOMAIN acc \cup {k}
    /\ \A x \in DOMAIN acc \ {k} : acc2[x] = acc[x]
    /\ acc2[k] = v \/ (k \in DOMAIN acc /\ acc2[k] = acc[k])

\* C23: a table row whose cells, normalized and with null and empty ones
\* dropped, number at least two offers (first cell as label, second as value)
\* to the map and ignores further cells; a row with fewer than two such
\* cells, or with a label of fewer than 3 characters, leaves the map unchanged.
TableRowRule ==
    [][pc = "kv_tables" /\ todo # <<>> /\ todo' = Tail(todo)
         => IF RowContributes(Head(todo))
            THEN Offered(out_kv, out_kv', NormKey(RemainingCells(Head(todo))[1]),
                         RemainingCells(Head(todo))[2])
            ELSE out_kv' = out_kv]_vars

\* a row of a null cell, a label, a value and one more cell gave (label, value)
TableRowRuleWitness ==
    /\ pc = "kv_tables"
    /\ todo = <<>>
    /\ AllRows(tables) = << <<<<"W","t">>, <<"5">>>>,
                            <<<<"C","o","l","o","r">>, <<" ","\t">>, <<"b","l","a","c","k"," "," "," ","m","a","t","t">>>>,
                            <<None, <<"F","r","a","m","e">>, <<"a","l","l","o","y">>, <<"e","x","t","r","a">>>> >>
    /\ out_kv = DictSet(DictSet(EmptyDict, <<"c","o","l","o","r">>, <<"b","l","a","c","k"," ","m","a","t","t">>), <<"f","r","a","m","e">>, <<"a","l","l","o","y">>)

\* C25: every value in the map a generic extractor builds is a non-empty
\* string, so no stored value is ever replaced: a key keeps the value of the
\* first accepted row or line that produced it.
NoEmptyValueStored ==
    /\ [](pc \in {"kv_tables", "kv_lines", "kv_tables_returned", "kv_lines_returned"}
             => \A k \in DOMAIN out_kv : out_kv[k] # EmptyStr)
    /\ [][(pc \in {"kv_tables", "kv_lines"})
             => \A k \in DOMAIN out_kv :
                    k \in DOMAIN out_kv' /\ out_kv'[k] = out_kv[k]]_vars

\* a label with nothing after its colon, then the same label with 10 and
\* with 20: the map holds 10
NoEmptyValueStoredWitness ==
    /\ pc = "kv_lines_returned"
    /\ text = <<"W","e","i","g","h","t",":","\n","W","e","i","g","h","t",":"," ","1","0","\n","w","e","i","g","h","t"," ",":"," ","2","0">>
    /\ out_kv = DictSet(EmptyDict, <<"w","e","i","g","h","t">>, <<"1","0">>)

\* start of the first run of two or more spaces of l, 0 when there is none
FirstGap(l) ==
    IF \A i \in 1..(Len(l) - 1) : ~(l[i] = " " /\ l[i + 1] = " ") THEN 0
    ELSE CHOOSE i \in 1..(Len(l) - 1) :
             /\ l[i] = " " /\ l[i + 1] = " "
             /\ \A h \in 1..(i - 1) : ~(l[h] = " " /\ l[h + 1] = " ")

\* l has no colon and a label of at least 3 characters and a non-empty value
\* on the two sides of its first run of spaces
TwoSpaceLine(l) ==
    /\ Len(NormWs(l)) >= 6
    /\ \A i \in DOMAIN l : l[i] # ":"
    /\ FirstGap(l) > 0
    /\ Len(NormWs(SubSeq(l, 1, FirstGap(l) - 1))) >= 3
    /\ NormWs(SubSeq(l, FirstGap(l), Len(l))) # EmptyStr

\* C18: a line of at least 6 characters without a colon whose label and value
\* are separated by two or more spaces yields the pair (key of the label,
\* value) in the line extractor's output.
TwoSpaceSplitYieldsPair ==
    pc = "kv_lines_returned" =>
        \A i \in DOMAIN SplitLines(text) :
            TwoSpaceLine(SplitLines(text)[i])
                => NormKey(SubSeq(SplitLines(text)[i], 1, FirstGap(SplitLines(text)[i]) - 1))
                       \in DOMAIN out_kv

(***************************************************************************)
(* Properties of the variant parsers                                       *)
(***************************************************************************)
\* s split at every occurrence of the character c
RECURSIVE SplitOn(_, _)
SplitOn(s, c) ==
    IF \A i \in DOMAIN s : s[i] # c THEN <<s>>
    ELSE LET n == CHOOSE i \in DOMAIN s : s[i] = c /\ \A j \in 1..(i - 1) : s[j] # c
         IN <<SubSeq(s, 1, n - 1)>> \o SplitOn(SubSeq(s, n + 1, Len(s)), c)

IsNumber(t) ==
    /\ t # <<>>
    /\ t[1] \in Digits /\ t[Len(t)] \in Digits
    /\ \A i \in DOMAIN t : t[i] \in Digits \cup {"."}

\* the numbers written on a line, in order
NumbersOn(line) == SelectSeq(SplitOn(line, " "), IsNumber)

HasPrefix(line, p) == Len(line) >= Len(p) /\ SubSeq(line, 1, Len(p)) = p

\* the first line of txt that starts with the Pmax label, "" when none does
PmaxLineOf(txt) ==
    LET ls == SplitOn(txt, "\n")
        at == {i \in DOMAIN ls : HasPrefix(ls[i], <<"M","a","x","i","m","u","m"," ","P","o","w","e","r"," ","-"," ","P","m","a","x">>)}
    IN IF at = {} THEN EmptyStr ELSE ls[CHOOSE i \in at : \A j \in at : i <= j]

JinkoReturned == pc = "jinko_returned"

\* C8 as claimed: Format A returns exactly N variants, N the number of
\* numeric tokens on the first Pmax line (N from 1 to five), and none only
\* when that line is missing or holds no number.
VariantCountFollowsPmaxLine ==
    JinkoReturned =>
        /\ Len(NumbersOn(PmaxLineOf(text))) \in 1..Expected
              => Len(variants) = Len(NumbersOn(PmaxLineOf(text)))
        /\ variants = <<>> => NumbersOn(PmaxLineOf(text)) = <<>>

\* C8 as amended: Format A returns exactly five variants, carrying the last
\* five numeric tokens of the first Pmax line as pmax_w, when that line holds
\* at least five numeric tokens, and none when the line is missing or holds
\* fewer than five.
FiveVariantsOrNone ==
    JinkoReturned =>
        IF Len(NumbersOn(PmaxLineOf(text))) >= Expected
        THEN /\ Len(variants) = Expected
             /\ \A i \in 1..Expected :
                   variants[i].pmax_w =
                       NumbersOn(PmaxLineOf(text))[Len(NumbersOn(PmaxLineOf(text))) - Expected + i]
        ELSE variants = <<>>

\* six tokens on the Pmax line: five variants, from the second token on
FiveVariantsOrNoneWitness ==
    /\ JinkoReturned
    /\ Len(NumbersOn(PmaxLineOf(text))) = 6
    /\ Len(variants) = 5
    /\ variants[1].pmax_w = <<"5","7","5">>
    /\ variants[5].pmax_w = <<"5","9","5">>

\* the index in ls of the first line equal to the NOCT header, 0 when none is
HeaderAt(ls) ==
    IF \A i \in DOMAIN ls : ls[i] # <<"S","p","e","c","i","f","i","c","a","t","i","o","n","s"," ","(","N","O","C","T",")">> THEN 0
    ELSE CHOOSE i \in DOMAIN ls :
             ls[i] = <<"S","p","e","c","i","f","i","c","a","t","i","o","n","s"," ","(","N","O","C","T",")">> /\ \A j \in 1..(i - 1) : ls[j] # <<"S","p","e","c","i","f","i","c","a","t","i","o","n","s"," ","(","N","O","C","T",")">>

\* the header at index h of ls is followed by five lines of n numbers each
FiveNumericLines(ls, h, n) ==
    /\ h > 0
    /\ h + 5 <= Len(ls)
    /\ \A j \in 1..5 :
          /\ Len(SplitOn(ls[h + j], " ")) = n
          /\ \A t \in DOMAIN SplitOn(ls[h + j], " ") : IsNumber(SplitOn(ls[h + j], " ")[t])

NoctAligned(ls, h, vs) ==
    \A i \in DOMAIN vs :
        /\ vs[i].noct_pmax_w = SplitOn(ls[h + 1], " ")[i]
        /\ vs[i].noct_vmp_v = SplitOn(ls[h + 2], " ")[i]
        /\ vs[i].noct_imp_a = SplitOn(ls[h + 3], " ")[i]
        /\ vs[i].noct_voc_v = SplitOn(ls[h + 4], " ")[i]
        /\ vs[i].noct_isc_a = SplitOn(ls[h + 5], " ")[i]

\* C10: when the NOCT header is followed by five numeric lines (one number
\* per variant), variant i carries the i-th value of the 1st, 2nd, 3rd, 4th
\* and 5th following line as noct_pmax_w, noct_vmp_v, noct_imp_a, noct_voc_v
\* and noct_isc_a.
NoctAssociation ==
    JinkoReturned /\ variants # <<>>
        /\ FiveNumericLines(SplitOn(text, "\n"), HeaderAt(SplitOn(text, "\n")), Len(variants))
        => NoctAligned(SplitOn(text, "\n"), HeaderAt(SplitOn(text, "\n")), variants)

\* five variants whose NOCT values come from the five lines after the header
NoctAssociationWitness ==
    /\ JinkoReturned
    /\ Len(variants) = 5
    /\ FiveNumericLines(SplitOn(text, "\n"), HeaderAt(SplitOn(text, "\n")), 5)
    /\ variants[1].pmax_w = <<"5","7","0">>
    /\ variants[1].noct_pmax_w = <<"4","3","0">>
    /\ variants[2].noct_vmp_v = <<"4","0",".","6">>
    /\ variants[5].noct_isc_a = <<"1","1",".","5">>

DigitValue(c) == CHOOSE d \in 0..9 : ToString(d) = c

RECURSIVE NumberOf(_)
NumberOf(ds) ==
    IF ds = <<>> THEN 0
    ELSE NumberOf(SubSeq(ds, 1, Len(ds) - 1)) * 10 + DigitValue(ds[Len(ds)])

\* a decimal with at most two fraction digits, in hundredths
Hundredths(s) ==
    NumberOf(SplitOn(s, ".")[1]) * 100
        + NumberOf(SubSeq(SplitOn(s \o <<".">>, ".")[2] \o <<"0", "0">>, 1, 2))

\* the four range checks on the six numbers of a block
InRanges(t) ==
    /\ NumberOf(t[1]) >= 500 /\ NumberOf(t[1]) <= 800
    /\ Hundredths(t[2]) >= 2000 /\ Hundredths(t[2]) <= 8000
    /\ Hundredths(t[4]) >= 3000 /\ Hundredths(t[4]) <= 9000
    /\ Hundredths(t[6]) >= 1000 /\ Hundredths(t[6]) <= 3000

\* variant v carries the six numbers t
FromBlock(v, t) ==
    /\ v.pmax_w = t[1] /\ v.vmp_v = t[2] /\ v.imp_a = t[3]
    /\ v.voc_v = t[4] /\ v.isc_a = t[5] /\ v.efficiency_pct = t[6]

\* the tokens t are the six numbers of a block
IsBlock(t) == Len(t) = 6 /\ \A i \in DOMAIN t : IsNumber(t[i])

\* the blocks of a text that holds one block a line, other lines left out
BlocksOn(txt) ==
    IF txt = EmptyStr THEN {}
    ELSE {t \in {SplitOn(SplitOn(txt, "\n")[i], " ") : i \in DOMAIN SplitOn(txt, "\n")} :
              IsBlock(t)}

\* C9: every variant Format B returns comes from a six-number block with
\* Pmax in [500,800], Vmp in [20,80], Voc in [30,90] and efficiency in
\* [10,30], bounds included; a block failing one of the checks never becomes a
\* variant.
PlausibilityFilter ==
    pc = "renewsys_returned" =>
        /\ \A i \in DOMAIN variants :
              \E t \in BlocksOn(text) : InRanges(t) /\ FromBlock(variants[i], t)
        /\ \A t \in BlocksOn(text) :
              ~InRanges(t) => \A i \in DOMAIN variants : ~FromBlock(variants[i], t)

\* the spurious block is dropped, the block at the upper bounds is kept
PlausibilityFilterWitness ==
    /\ pc = "renewsys_returned"
    /\ BlocksOn(text) = {SplitOn(<<"9","9","9"," ","5",".","0"," ","2","0","0",".","0"," ","5",".","0"," ","5",".","0"," ","5",".","0">>, " "),
                         SplitOn(<<"8","0","0"," ","8","0",".","0"," ","1",".","0"," ","9","0",".","0","0"," ","1",".","0"," ","3","0",".","0">>, " ")}
    /\ Len(variants) = 1
    /\ variants[1].voc_v = <<"9","0",".","0","0">>

\* the lines ls without the one at index h, joined again
WithoutLine(ls, h) ==
    Join(SubSeq(ls, 1, h - 1) \o SubSeq(ls, h + 1, Len(ls)), <<"\n">>)

NoctFieldsEmpty(v) ==
    /\ v.noct_pmax_w = EmptyStr /\ v.noct_vmp_v = EmptyStr /\ v.noct_imp_a = EmptyStr
    /\ v.noct_voc_v = EmptyStr /\ v.noct_isc_a = EmptyStr

SameStc(v, w) ==
    /\ v.pmax_w = w.pmax_w /\ v.vmp_v = w.vmp_v /\ v.imp_a = w.imp_a
    /\ v.voc_v = w.voc_v /\ v.isc_a = w.isc_a /\ v.efficiency_pct = w.efficiency_pct

\* C11: when the NOCT header is found but fewer than five lines follow it,
\* every NOCT field of every variant is the empty string and the STC fields
\* are what they are without the header.
NoctAnomalyLeavesEmpty ==
    JinkoReturned /\ HeaderAt(SplitOn(text, "\n")) > 0
        /\ Len(SplitOn(text, "\n")) - HeaderAt(SplitOn(text, "\n")) < 5
        => /\ \A i \in DOMAIN variants : NoctFieldsEmpty(variants[i])
           /\ Len(variants) = Len(ParseJinkoLikeVariants(
                   WithoutLine(SplitOn(text, "\n"), HeaderAt(SplitOn(text, "\n")))))
           /\ \A i \in DOMAIN variants :
                 SameStc(variants[i],
                         ParseJinkoLikeVariants(
                             WithoutLine(SplitOn(text, "\n"), HeaderAt(SplitOn(text, "\n"))))[i])

\* the first line of txt that starts with the label lbl, "" when none does
MetricLineOf(txt, lbl) ==
    LET ls == SplitOn(txt, "\n")
        at == {i \in DOMAIN ls : HasPrefix(ls[i], lbl)}
    IN IF at = {} THEN EmptyStr ELSE ls[CHOOSE i \in at : \A m \in at : i <= m]

\* the values a metric line yields: its last five numbers, none when it
\* holds fewer
KeptValues(line) ==
    IF Len(NumbersOn(line)) >= 5
    THEN SubSeq(NumbersOn(line), Len(NumbersOn(line)) - 4, Len(NumbersOn(line)))
    ELSE <<>>

\* the i-th value of the metric labelled lbl, "" when there is none
ValueAt(txt, lbl, i) ==
    IF i <= Len(KeptValues(MetricLineOf(txt, lbl)))
    THEN KeptValues(MetricLineOf(txt, lbl))[i] ELSE EmptyStr

\* C19: variant i has pmax_w equal to the i-th kept Pmax token and, for each
\* of vmp_v, imp_a, voc_v, isc_a, efficiency_pct, the i-th value of the
\* first line with that metric's label; a metric whose line is absent or
\* yields no value at i is the empty string, and so are the NOCT fields of a
\* text without NOCT header.
AlignmentAndDefaults ==
    JinkoReturned =>
        \A i \in DOMAIN variants :
            /\ variants[i].pmax_w = KeptValues(MetricLineOf(text, <<"M","a","x","i","m","u","m"," ","P","o","w","e","r"," ","-"," ","P","m","a","x">>))[i]
            /\ variants[i].vmp_v = ValueAt(text, <<"M","a","x","i","m","u","m"," ","P","o","w","e","r"," ","V","o","l","t","a","g","e"," ","-"," ","V","m","p">>, i)
            /\ variants[i].imp_a = ValueAt(text, <<"M","a","x","i","m","u","m"," ","P","o","w","e","r"," ","C","u","r","r","e","n","t"," ","-"," ","I","m","p">>, i)
            /\ variants[i].voc_v = ValueAt(text, <<"O","p","e","n","-","c","i","r","c","u","i","t"," ","V","o","l","t","a","g","e"," ","-"," ","V","o","c">>, i)
            /\ variants[i].isc_a = ValueAt(text, <<"S","h","o","r","t","-","c","i","r","c","u","i","t"," ","C","u","r","r","e","n","t"," ","-"," ","I","s","c">>, i)
            /\ variants[i].efficiency_pct = ValueAt(text, <<"M","o","d","u","l","e"," ","E","f","f","i","c","i","e","n","c","y"," ","S","T","C">>, i)
            /\ HeaderAt(SplitOn(text, "\n")) = 0 => NoctFieldsEmpty(variants[i])

\* only the Pmax and Vmp lines: pmax_w and vmp_v set, every other field empty
AlignmentAndDefaultsWitness ==
    /\ JinkoReturned
    /\ text = <<"M","a","x","i","m","u","m"," ","P","o","w","e","r"," ","-"," ","P","m","a","x"," ","5","7","0"," ","5","7","5"," ","5","8","0"," ","5","8","5"," ","5","9","0","\n","M","a","x","i","m","u","m"," ","P","o","w","e","r"," ","V","o","l","t","a","g","e"," ","-"," ","V","m","p"," ","4","3",".","0"," ","4","3",".","2"," ","4","3",".","4"," ","4","3",".","6"," ","4","3",".","8">>
    /\ Len(variants) = 5
    /\ variants[3] = [pmax_w |-> <<"5","8","0">>, vmp_v |-> <<"4","3",".","4">>, imp_a |-> EmptyStr,
                       voc_v |-> EmptyStr, isc_a |-> EmptyStr, efficiency_pct |-> EmptyStr,
                       noct_pmax_w |-> EmptyStr, noct_vmp_v |-> EmptyStr,
                       noct_imp_a |-> EmptyStr, noct_voc_v |-> EmptyStr,
                       noct_isc_a |-> EmptyStr]

\* the efficiency line holds six numbers: the variants carry the last five
AlignmentTrailingWitness ==
    /\ JinkoReturned
    /\ Len(NumbersOn(MetricLineOf(text, <<"M","o","d","u","l","e"," ","E","f","f","i","c","i","e","n","c","y"," ","S","T","C">>))) = 6
    /\ Len(variants) = 5
    /\ variants[1].efficiency_pct = <<"2","2",".","0">>
    /\ variants[5].efficiency_pct = <<"2","2",".","8">>

\* the Pmax values of the blocks of txt that pass the four range checks
AcceptedPmax(txt) == {NumberOf(t[1]) : t \in {b \in BlocksOn(txt) : InRanges(b)}}

\* the n smallest members of S, all of S when it has no more than n
Lowest(S, n) == {x \in S : Cardinality({y \in S : y < x}) < n}

ReturnedPmax == {NumberOf(variants[i].pmax_w) : i \in DOMAIN variants}

\* C20: if an accepted candidate has Pmax in [600,625] the variants are
\* exactly the candidates in that band, however many; otherwise they are
\* exactly the six candidates with the lowest Pmax, all when there are six or
\* fewer.
BandSelection ==
    pc = "renewsys_returned" =>
        /\ Len(variants) = Cardinality(ReturnedPmax)
        /\ ReturnedPmax =
              IF AcceptedPmax(text) \cap (600..625) # {}
              THEN AcceptedPmax(text) \cap (600..625)
              ELSE Lowest(AcceptedPmax(text), 6)

\* seven candidates above the band, highest first: the six lowest are kept
BandSelectionWitness ==
    /\ pc = "renewsys_returned"
    /\ AcceptedPmax(text) = {626, 630, 640, 650, 660, 670, 680}
    /\ SplitOn(text, "\n")[1] = LadderBlock(<<"6","8","0">>)
    /\ Len(variants) = 6
    /\ ReturnedPmax = {626, 630, 640, 650, 660, 670}

\* seven candidates in the band and one above it: the seven are kept
BandOnlyWitness ==
    /\ pc = "renewsys_returned"
    /\ AcceptedPmax(text) = {600, 603, 605, 610, 615, 620, 625, 630}
    /\ ReturnedPmax = {600, 603, 605, 610, 615, 620, 625}

\* the blocks of a text that holds one block a line, in the order of the text
BlockSeq(txt) ==
    IF txt = EmptyStr THEN <<>>
    ELSE SelectSeq([i \in DOMAIN SplitOn(txt, "\n") |-> SplitOn(SplitOn(txt, "\n")[i], " ")],
                   IsBlock)

\* the index of the last accepted block of bs with Pmax p, 0 when there is none
LastAccepted(bs, p) ==
    LET at == {i \in DOMAIN bs : bs[i][1] = p /\ InRanges(bs[i])}
    IN  IF at = {} THEN 0 ELSE CHOOSE i \in at : \A m \in at : m <= i

\* C21: no two variants of Format B share a Pmax; a variant carries the
\* Vmp/Imp/Voc/Isc/efficiency of the last accepted block with its Pmax, so a
\* later block of that Pmax that fails the filter neither replaces nor removes
\* it.
DedupLastAcceptedWins ==
    pc = "renewsys_returned" =>
        /\ \A i, j \in DOMAIN variants :
              variants[i].pmax_w = variants[j].pmax_w => i = j
        /\ \A i \in DOMAIN variants :
              /\ LastAccepted(BlockSeq(text), variants[i].pmax_w) > 0
              /\ FromBlock(variants[i],
                           BlockSeq(text)[LastAccepted(BlockSeq(text), variants[i].pmax_w)])
        /\ \A n \in DOMAIN BlockSeq(text) :
              InRanges(BlockSeq(text)[n]) /\ NumberOf(BlockSeq(text)[n][1]) = 600
                  => \E i \in DOMAIN variants : variants[i].pmax_w = BlockSeq(text)[n][1]

\* two accepted 600 W blocks, then a rejected one: the second block is kept
DedupLastAcceptedWinsWitness ==
    /\ pc = "renewsys_returned"
    /\ text = Join(<< <<"6","0","0"," ","3","9",".","3","8"," ","1","5",".","2","5"," ","4","6",".","9","5"," ","1","5",".","9","9"," ","2","2",".","2","4">>,
                      <<"6","0","0"," ","4","0",".","0","0"," ","1","5",".","0","0"," ","4","7",".","0","0"," ","1","6",".","0","0"," ","2","2",".","5","0">>,
                      <<"6","0","0"," ","5",".","0"," ","1","5",".","2","5"," ","4","6",".","9","5"," ","1","5",".","9","9"," ","2","2",".","2","4">> >>, <<"\n">>)
    /\ Len(variants) = 1
    /\ variants[1].vmp_v = <<"4","0",".","0","0">>
    /\ variants[1].efficiency_pct = <<"2","2",".","5","0">>

\* the first line that holds "noct" and "@800" in any case, 0 when none does
NoctLineAt(ls) ==
    LET at == {i \in DOMAIN ls : /\ Contains(Lower(ls[i]), <<"n","o","c","t">>)
                                 /\ Contains(Lower(ls[i]), <<"@","8","0","0">>)}
    IN  IF at = {} THEN 0 ELSE CHOOSE i \in at : \A m \in at : i <= m

IsPower(t) == Len(t) = 3 /\ \A i \in DOMAIN t : t[i] \in Digits

IsDecimal(t) == IsNumber(t) /\ \E i \in DOMAIN t : t[i] = "."

\* the power values listed on a line: its three-digit numbers
PowersOn(line) == SelectSeq(SplitOn(line, " "), IsPower)

DecimalsOn(line) == SelectSeq(SplitOn(line, " "), IsDecimal)

NthOrEmpty(q, j) == IF j <= Len(q) THEN q[j] ELSE EmptyStr

\* the positions of the NOCT line at h whose power is p and has a NOCT Pmax
ListedAt(ls, h, p) ==
    IF h = 0 \/ h + 3 > Len(ls) THEN {}
    ELSE {j \in DOMAIN PowersOn(ls[h]) :
              PowersOn(ls[h])[j] = p /\ j <= Len(DecimalsOn(ls[h + 1]))}

\* variant v carries the j-th decimals of the three lines under line h
NoctFromColumn(v, ls, h, j) ==
    /\ v.noct_pmax_w = DecimalsOn(ls[h + 1])[j]
    /\ v.noct_vmp_v = NthOrEmpty(DecimalsOn(ls[h + 2]), j)
    /\ v.noct_imp_a = NthOrEmpty(DecimalsOn(ls[h + 3]), j)
    /\ v.noct_voc_v = EmptyStr /\ v.noct_isc_a = EmptyStr

\* the text above the NOCT line, the whole text when there is none
AboveNoct(ls, h) == Join(IF h = 0 THEN ls ELSE SubSeq(ls, 1, h - 1), <<"\n">>)

NoctMergedInto(vs, ls, h) ==
    /\ \A i \in DOMAIN vs :
          IF ListedAt(ls, h, vs[i].pmax_w) = {} THEN NoctFieldsEmpty(vs[i])
          ELSE \A j \in ListedAt(ls, h, vs[i].pmax_w) : NoctFromColumn(vs[i], ls, h, j)
    /\ Len(vs) = Len(ParseRenewsysLikeVariants(AboveNoct(ls, h)))
    /\ \A i \in DOMAIN vs :
          SameStc(vs[i], ParseRenewsysLikeVariants(AboveNoct(ls, h))[i])

\* C22: on the first line holding "noct" and "@800" with three lines under
\* it, the j-th listed power (the 800 of "@800" is not one) receives the j-th
\* decimal of the next three lines as NOCT Pmax, Vmp and Imp, and a variant
\* with that Pmax carries them; every other variant has empty NOCT fields, and
\* the variants are those of the text without the NOCT block.
NoctMergeByPower ==
    pc = "renewsys_returned" =>
        NoctMergedInto(variants, SplitOn(text, "\n"), NoctLineAt(SplitOn(text, "\n")))

\* C24: no two variants of a returned variant list have the same pmax_w,
\* whether Format A or Format B produced the list.
VariantIdentity ==
    pc \in {"jinko_returned", "renewsys_returned"} =>
        \A i, j \in DOMAIN variants :
            variants[i].pmax_w = variants[j].pmax_w => i = j

(***************************************************************************)
(* Properties of the page loop and the bulk fields                         *)
(***************************************************************************)
\* C12: when the text of one page fails to decode while the document itself
\* opened, extraction is not aborted and a record is returned.
PageTextFailureTolerated == pc = "extract_raised" => ~pdf.readable

\* what extract_text gave for a page, "" for nothing
TextOfPage(page) == IF page.text = None THEN EmptyStr ELSE page.text

\* the page texts in page order, each followed by a newline
PageTexts(pages) == Concat([p \in DOMAIN pages |-> TextOfPage(pages[p]) \o <<"\n">>])

\* the tables of the pages whose table extraction did not fail, in page order
PageTables(pages) ==
    Concat([p \in DOMAIN pages |-> IF pages[p].tables_raise THEN <<>> ELSE pages[p].tables])

\* C13: when extract_tables raises on a page, that page contributes no
\* tables, its text is still part of the raw text, every other page
\* contributes its text and tables in page order, and a record is returned
\* (the call raises only for an unreadable document or a failing text).
TableFailureRecovered ==
    /\ Returned => /\ out[<<"r","a","w","_","t","e","x","t">>] = PageTexts(pdf.pages)
                   /\ all_tables = PageTables(pdf.pages)
    /\ pc = "extract_raised"
          => ~pdf.readable \/ \E p \in DOMAIN pdf.pages : pdf.pages[p].text_raises

\* the first page's tables failed, the second page's tables are all there are
TableFailureRecoveredWitness ==
    /\ Returned
    /\ Len(pdf.pages) = 2
    /\ pdf.pages[1].tables_raise
    /\ pdf.pages[1].tables # <<>>
    /\ ~pdf.pages[2].tables_raise
    /\ pdf.pages[2].tables # <<>>
    /\ all_tables = pdf.pages[2].tables
    /\ out[<<"r","a","w","_","t","e","x","t">>] = pdf.pages[1].text \o <<"\n">> \o TextOfPage(pdf.pages[2]) \o <<"\n">>

\* the number of backslashes right before position j of s
BackslashesBefore(s, j) ==
    IF \A i \in 1..(j - 1) : s[i] = "\\" THEN j - 1
    ELSE j - 1 - (CHOOSE i \in 1..(j - 1) :
                      s[i] # "\\" /\ \A m \in (i + 1)..(j - 1) : s[m] = "\\")

\* position i of s holds the backslash that starts an escape
StartsEscape(s, i) == s[i] = "\\" /\ BackslashesBefore(s, i) % 2 = 0

\* the character an escape stands for
Unescaped(c) == IF c = "n" THEN "\n" ELSE IF c = "t" THEN "\t" ELSE c

\* the string a JSON string body encodes
JsonUnescape(s) ==
    LET kept == SelectSeq([i \in DOMAIN s |-> i], LAMBDA i : ~StartsEscape(s, i))
    IN  [n \in DOMAIN kept |->
            IF kept[n] > 1 /\ StartsEscape(s, kept[n] - 1)
            THEN Unescaped(s[kept[n]]) ELSE s[kept[n]]]

\* the position of the quote that closes the JSON string opened at pos
ClosingQuote(s, pos) ==
    CHOOSE j \in (pos + 1)..Len(s) :
        /\ s[j] = "\"" /\ BackslashesBefore(s, j) % 2 = 0
        /\ \A m \in (pos + 1)..(j - 1) : ~(s[m] = "\"" /\ BackslashesBefore(s, m) % 2 = 0)

\* the first position from pos on that holds no blank
SkipBlanks(s, pos) == CHOOSE j \in pos..Len(s) : s[j] # " " /\ \A m \in pos..(j - 1) : s[m] = " "

\* json.loads for arrays, strings and null: the value that starts at pos and
\* the position after it
RECURSIVE JsonValueAt(_, _), JsonItemsAt(_, _, _)
JsonValueAt(s, pos) ==
    IF s[pos] = "[" THEN
        IF s[SkipBlanks(s, pos + 1)] = "]"
        THEN [val |-> <<>>, next |-> SkipBlanks(s, pos + 1) + 1]
        ELSE JsonItemsAt(s, SkipBlanks(s, pos + 1), <<>>)
    ELSE IF s[pos] = "\"" THEN
        [val |-> JsonUnescape(SubSeq(s, pos + 1, ClosingQuote(s, pos) - 1)),
         next |-> ClosingQuote(s, pos) + 1]
    ELSE [val |-> None, next |-> pos + 4]

JsonItemsAt(s, pos, acc) ==
    LET item == JsonValueAt(s, pos)
        after == SkipBlanks(s, item.next)
    IN  IF s[after] = ","
        THEN JsonItemsAt(s, SkipBlanks(s, after + 1), Append(acc, item.val))
        ELSE [val |-> Append(acc, item.val), next |-> after + 1]

JsonLoads(s) == JsonValueAt(s, 1).val

\* C15: every returned record has raw_text equal to the page texts in page
\* order, each followed by a newline, and raw_tables_json decodes back to
\* exactly the extracted tables, rows and cells, null cells included.
BulkFieldsLossless ==
    Returned =>
        /\ <<"r","a","w","_","t","e","x","t">> \in DOMAIN out /\ <<"r","a","w","_","t","a","b","l","e","s","_","j","s","o","n">> \in DOMAIN out
        /\ out[<<"r","a","w","_","t","e","x","t">>] = PageTexts(pdf.pages)
        /\ JsonLoads(out[<<"r","a","w","_","t","a","b","l","e","s","_","j","s","o","n">>]) = PageTables(pdf.pages)

\* two pages of tables with null cells, an empty row, a quote, a backslash and
\* a newline in a cell; the decoded tables are the ones the pages held
BulkFieldsLosslessWitness ==
    /\ Returned
    /\ Len(pdf.pages) = 2
    /\ all_tables = TablesWeight \o TablesCell
    /\ JsonLoads(out[<<"r","a","w","_","t","a","b","l","e","s","_","j","s","o","n">>]) = TablesWeight \o TablesCell
    /\ out[<<"r","a","w","_","t","a","b","l","e","s","_","j","s","o","n">>] # JsonDumpsTables(<<>>)

\* Format B produced the record's variants
ProducedByFormatB ==
    /\ Returned
    /\ out[VariantsKey] # <<>>
    /\ ParseJinkoLikeVariants(all_text) = <<>>

\* the tag of the record of a one-page Format A datasheet
FormatATag ==
    ExtractParameters([readable |-> TRUE, pages |-> <<Page(TextFormatA, <<>>)>>])[<<"e","x","t","r","a","c","t","i","o","n","_","m","e","t","h","o","d">>]

\* C17 as claimed: the extraction_method of a record whose variants Format B
\* produced tells it apart from a record whose variants Format A produced.
TagTellsFormatsApart == ProducedByFormatB => out[<<"e","x","t","r","a","c","t","i","o","n","_","m","e","t","h","o","d">>] # FormatATag

\* C17 as amended: every returned record carries the same fixed tag, which
\* names the pipeline version, whichever parser produced its variants.
TagIsFixed == Returned => out[<<"e","x","t","r","a","c","t","i","o","n","_","m","e","t","h","o","d">>] = <<"p","d","f","p","l","u","m","b","e","r","_","g","e","n","e","r","i","c","_","k","v","+","v","a","r","i","a","n","t","s","_","v","1">>

\* a record with Format B variants carries the tag of a Format A record
TagIsFixedWitness ==
    /\ ProducedByFormatB
    /\ out[VariantsKey][1].pmax_w = <<"6","0","0">>
    /\ out[<<"e","x","t","r","a","c","t","i","o","n","_","m","e","t","h","o","d">>] = FormatATag

\* the keys the engine sets after the merge
EngineKeys == { <<"v","a","r","i","a","n","t","s">>, <<"r","a","w","_","t","e","x","t">>, <<"r","a","w","_","t","a","b","l","e","s","_","j","s","o","n">>, <<"e","x","t","r","a","c","t","i","o","n","_","m","e","t","h","o","d">> }

\* the value of the record's key x is the one scraped or matched for x itself
OwnSource(x) ==
    \/ x \in DOMAIN kv /\ kv[x] = out[x]
    \/ x \in DOMAIN canonical /\ canonical[x] = out[x]

\* C26: the record's variants, raw_text, raw_tables_json and
\* extraction_method hold the engine's variant list, raw text, table
\* serialization and tag even when a scraped label normalizes to one of these
\* keys; the scraped value is replaced and is stored under no other key.
EngineKeysWin ==
    Returned =>
        /\ EngineKeys \subseteq DOMAIN out
        /\ out[VariantsKey] = variants
        /\ out[<<"r","a","w","_","t","e","x","t">>] = PageTexts(pdf.pages)
        /\ JsonLoads(out[<<"r","a","w","_","t","a","b","l","e","s","_","j","s","o","n">>]) = PageTables(pdf.pages)
        /\ out[<<"e","x","t","r","a","c","t","i","o","n","_","m","e","t","h","o","d">>] = <<"p","d","f","p","l","u","m","b","e","r","_","g","e","n","e","r","i","c","_","k","v","+","v","a","r","i","a","n","t","s","_","v","1">>
        /\ \A k \in EngineKeys \cap DOMAIN kv :
              \A x \in DOMAIN out \ EngineKeys : out[x] = kv[k] => OwnSource(x)

\* the sheet prints "Variants: none" and "Raw text: x"; the record holds the
\* engine's values under both keys
EngineKeysWinWitness ==
    /\ Returned
    /\ VariantsKey \in DOMAIN kv /\ kv[VariantsKey] = <<"n","o","n","e">>
    /\ <<"r","a","w","_","t","e","x","t">> \in DOMAIN kv /\ kv[<<"r","a","w","_","t","e","x","t">>] = <<"x">>
    /\ out[VariantsKey] = <<>>
    /\ out[<<"r","a","w","_","t","e","x","t">>] = all_text
    /\ all_text # <<"x">>

\* the sheet prints "Variants: none" above Format B blocks; the record holds
\* the parsed variants
EngineVariantsWitness ==
    /\ Returned
    /\ VariantsKey \in DOMAIN kv /\ kv[VariantsKey] = <<"n","o","n","e">>
    /\ Len(out[VariantsKey]) = 1
    /\ out[VariantsKey][1].pmax_w = <<"6","0","0">>

(***************************************************************************)
(* Properties of the extractor service                                     *)
(***************************************************************************)
\* C14: when the document cannot be opened, extract_parameters returns no
\* record and the service writes no candidate object for it: every accepted
\* event ends in the error.
DecodeFailureFatal ==
    pc = "eventarc_receiver" /\ ~pdf.readable
        => /\ out = Idle
           /\ DOMAIN written = {}
           /\ \A i \in DOMAIN responses : responses[i] # "ok"

\* the unreadable PDF of an accepted event was read and the handler failed
DecodeFailureFatalWitness ==
    /\ pc = "eventarc_receiver"
    /\ ~pdf.readable
    /\ meta.exists
    /\ events = <<>>
    /\ responses = <<"error">>
    /\ reads = <<<<"0","1","_","R","a","w","_","C","a","t","a","l","o","g","u","e","s","/","m","o","d","u","l","e","s","/","a","_","m","e","t","a","d","a","t","a",".","j","s","o","n">>, <<"0","1","_","R","a","w","_","C","a","t","a","l","o","g","u","e","s","/","m","o","d","u","l","e","s","/","a",".","p","d","f">>>>
    /\ DOMAIN written = {}

ProvenanceKeys == { <<"s","o","u","r","c","e","_","p","d","f">>, <<"s","o","u","r","c","e","_","m","e","t","a","d","a","t","a">> }

Gs(bucket, path) == <<"g","s",":","/","/">> \o bucket \o <<"/">> \o path

\* c names, as source_pdf and source_metadata, a PDF the handler read and the
\* metadata object it read just before it, in one of the buckets
NamesItsSources(c) ==
    \E i \in 2..Len(reads) : \E b \in { <<"b","r","a","h","m","a","-","h","q","-","p","r","o","d">>, <<"b","2">> } :
        /\ c[<<"s","o","u","r","c","e","_","p","d","f">>] = Gs(b, reads[i])
        /\ c[<<"s","o","u","r","c","e","_","m","e","t","a","d","a","t","a">>] = Gs(b, reads[i - 1])
        /\ reads[i] = <<"0","1","_","R","a","w","_","C","a","t","a","l","o","g","u","e","s","/","m","o","d","u","l","e","s","/","a",".","p","d","f">>
        /\ reads[i - 1] = <<"0","1","_","R","a","w","_","C","a","t","a","l","o","g","u","e","s","/","m","o","d","u","l","e","s","/","a","_","m","e","t","a","d","a","t","a",".","j","s","o","n">>

\* c holds every key of the metadata m and of the extracted record e, the
\* value of e where both have the key
ExtractedOverMeta(c, m, e) ==
    /\ DOMAIN c = DOMAIN m \cup DOMAIN e \cup ProvenanceKeys
    /\ \A k \in DOMAIN e \ ProvenanceKeys : c[k] = e[k]
    /\ \A k \in DOMAIN m \ (DOMAIN e \cup ProvenanceKeys) : c[k] = m[k]

\* C27: a written candidate holds every key of the upload metadata and of
\* the extracted record, the extracted value where both have the key, and
\* source_pdf and source_metadata hold the gs:// paths of the PDF and of its
\* metadata object whatever the two said.
CandidatePrecedence ==
    pc = "eventarc_receiver" =>
        \A n \in DOMAIN written :
            /\ ExtractedOverMeta(written[n], meta.obj, out)
            /\ NamesItsSources(written[n])

\* metadata and sheet both give weight and source_pdf: the candidate has the
\* sheet's (empty) weight and the path of the PDF
CandidatePrecedenceWitness ==
    /\ pc = "eventarc_receiver"
    /\ responses = <<"ok">>
    /\ ProvenanceKeys \cap DOMAIN meta.obj = { <<"s","o","u","r","c","e","_","p","d","f">> }
    /\ meta.obj[<<"s","o","u","r","c","e","_","p","d","f">>] = <<"o","l","d">> /\ meta.obj[<<"w","e","i","g","h","t">>] = <<"1"," ","k","g">>
    /\ <<"s","o","u","r","c","e","_","p","d","f">> \in DOMAIN out
    /\ out[<<"s","o","u","r","c","e","_","p","d","f">>] = <<"s","c","a","n">> /\ out[<<"w","e","i","g","h","t">>] = EmptyStr
    /\ \E n \in DOMAIN written :
          /\ written[n][<<"w","e","i","g","h","t">>] = EmptyStr
          /\ written[n][<<"m","o","d","e","l">>] = <<"J","K","M">>
          /\ written[n][<<"s","o","u","r","c","e","_","p","d","f">>] = <<"g","s",":","/","/","b","r","a","h","m","a","-","h","q","-","p","r","o","d","/","0","1","_","R","a","w","_","C","a","t","a","l","o","g","u","e","s","/","m","o","d","u","l","e","s","/","a",".","p","d","f">>
          /\ written[n][<<"s","o","u","r","c","e","_","m","e","t","a","d","a","t","a">>]
                 = <<"g","s",":","/","/","b","r","a","h","m","a","-","h","q","-","p","r","o","d","/","0","1","_","R","a","w","_","C","a","t","a","l","o","g","u","e","s","/","m","o","d","u","l","e","s","/","a","_","m","e","t","a","d","a","t","a",".","j","s","o","n">>

HasSuffix(s, q) == Len(s) >= Len(q) /\ SubSeq(s, Len(s) - Len(q) + 1, Len(s)) = q

\* the object name starts with "01_Raw_Catalogues/modules/" and ends with ".pdf"
PassesFilter(n) ==
    /\ n # None
    /\ HasPrefix(n, <<"0","1","_","R","a","w","_","C","a","t","a","l","o","g","u","e","s","/","m","o","d","u","l","e","s","/">>)
    /\ HasSuffix(n, <<".","p","d","f">>)

\* the handler answered the event at the head of the queue in this step
Handled == events # <<>> /\ events' = Tail(events) /\ Len(responses') = Len(responses) + 1

\* an event outside the filter is answered "ignored" with no read and no
\* write; storage is read or written only for an event inside it
FilterStep ==
    Handled =>
        /\ ~PassesFilter(Head(events).name)
              => /\ responses' = Append(responses, "ignored")
                 /\ reads' = reads /\ written' = written
        /\ PassesFilter(Head(events).name)
              => /\ responses'[Len(responses')] # "ignored"
                 /\ reads' # reads

\* C28: the handler reads and writes storage only for events whose object
\* name starts with "01_Raw_Catalogues/modules/" and ends with ".pdf"; every
\* other event is answered "ignored" with no read and no write; and a
\* candidate it writes, under "02_Candidates/" and ending ".json", never
\* passes the filter itself.
FilterAndNoSelfTrigger ==
    /\ [][FilterStep]_vars
    /\ [](pc = "eventarc_receiver" =>
             \A n \in DOMAIN written :
                 /\ ~PassesFilter(n)
                 /\ HasPrefix(n, <<"0","2","_","C","a","n","d","i","d","a","t","e","s","/">>) /\ HasSuffix(n, <<".","j","s","o","n">>))

\* a PDF event was handled and an event outside the filter ignored: two
\* reads, one candidate, written under 02_Candidates
FilterAndNoSelfTriggerWitness ==
    /\ pc = "eventarc_receiver"
    /\ events = <<>>
    /\ responses = <<"ok", "ignored">>
    /\ Len(reads) = 2
    /\ DOMAIN written = { <<"0","2","_","C","a","n","d","i","d","a","t","e","s","/","m","o","d","u","l","e","s","/","a",".","j","s","o","n">> }

====
